---- MODULE Spec2Model ----
(***************************************************************************)
(* miningRoom: the device control layer of main.go and the telemetry       *)
(* reads that feed the dashboard.                                          *)
(*                                                                         *)
(*   Spec      the bulk handlers (setAllMiners{Power,FreqVolt,Sleep},      *)
(*             startAllMiners, shutdownAllMiners), their per-target        *)
(*             goroutines, the mutex-guarded failure list, the WaitGroup   *)
(*             and the Shelly relay control the start/shutdown tasks run.  *)
(*   FairSpec  Spec with the scheduler's fairness, for termination.        *)
(*   MinerSpec one miner set operation step by step: GET, parse, mutate,   *)
(*             doDigestPost round 1, round 2, status check.                *)
(*   RelaySpec one start / shutdown handler with its relay control.        *)
(*   ManageSpec   getManageMinersHandler and fetchMinerConfig.             *)
(*   RevenueSpec  calculateDailyRevenueEUR and its two fetch goroutines.   *)
(*   ThermalSpec  GetThermalInsulationData: three queries, join, sort.     *)
(*   EnergySpec   GetDailyEnergyUsage: grouping by date, mean, energy.     *)
(*   GaugeSpec    the efficiency the four read handlers compute.           *)
(*   HelperSpec   the typed telemetry helpers of the QuestDB client.       *)
(*   EndpointSpec the telemetry read endpoints and their query errors.     *)
(*   RegistrySpec addMachineHandler, deleteMachineHandler and the reload   *)
(*             of the machines snapshot.                                   *)
(*   StartSpec    the single-target and the bulk start / shutdown          *)
(*             handlers side by side, targets with and without a relay.    *)
(*   SharedRelaySpec  bulk start / shutdown tasks on one relay, next to    *)
(*             somebody else switching it.                                 *)
(*   ParseSpec    parseDigestChallenge on headers of key=value fields.     *)
(*   AccessSpec   the route table behind requireInnerNetwork.              *)
(*   ManageRaceSpec, BulkRaceSpec  getManageMinersHandler and the bulk     *)
(*             start / shutdown tasks while machines are added or deleted. *)
(*                                                                         *)
(* JSON numbers are float64 after decoding; telemetry quotients are kept   *)
(* as exact rationals <<numerator, denominator>>.                          *)
(*                                                                         *)
(* Strings are sequences of tokens.  The characters the code looks at one  *)
(* by one (double quote, comma, '=', space, '-') are tokens of their own;  *)
(* a run of other characters is one token.  No token of the alphabet used  *)
(* here contains "auth" except the token "auth" itself, so                 *)
(* strings.Contains(s, "auth") is "some token of s is auth".               *)
(***************************************************************************)
EXTENDS Integers, Sequences, FiniteSets, TLC

VARIABLES
    \* ---- bulk handler (Spec, FairSpec) ----
    hpc,        \* handler position: "idle", "launch", "done"
    req,        \* the bound request: [kind, ips, power, freq, volt]
    li,         \* index of the next element of req.ips the for loop launches
    wg,         \* sync.WaitGroup counter
    mu,         \* sync.Mutex: 0 when free, else the index of the holding task
    failed,     \* the shared failure list
    tpc,        \* per task: position in the goroutine body
    tshelly,    \* per task: local shellyIP
    tread,      \* per task: the value of failed that append(failed, minerIP) read
    terr,       \* history, per task: outcome of its attempt ("none", "ok", "err", "norelay")
    nOps,       \* history, per task: calls of the single-target operation
    tflips,     \* history (when traced), per task: the relay outputs its toggles produced
    tcur,       \* history (when traced), per task: what getShellyStatus returned
    response,   \* the JSON answer of the handler
    relay,      \* relay address -> output on/off (the device's state)
    machines,   \* the process-wide registry snapshot
    \* ---- single-target start / shutdown (RelaySpec) ----
    spc,        \* "idle", "status", "toggle", "done"
    sreq,       \* [ip, on]: startMinerHandler has on = TRUE, shutdownMinerHandler FALSE
    sshelly,    \* local shellyIP
    scur,       \* what getShellyStatus returned: "on", "off", "err", "none"
    stog,       \* what toggleShelly returned: "nil", "err", "none"
    sret,       \* what controlShelly returned: "nil", "err", "none"
    slog,       \* requests controlShelly has sent to the relay, in order
    sstatus,    \* HTTP status of the handler's answer
    \* ---- one miner set operation (MinerSpec) ----
    mpc,        \* "idle", "get", "post1", "post2", "done"
    mop,        \* the operation: [kind, power, freq, volt]
    getResp,    \* response of the configuration GET
    postBody,   \* the marshalled (mutated) document handed to doDigestPost
    wire,       \* requests this operation has sent to the device, in order
    resp1,      \* doDigestPost: response of round 1
    resp2,      \* doDigestPost: response of round 2
    challenge,  \* doDigestPost: parsed WWW-Authenticate challenge
    cnonce,     \* doDigestPost: client nonce of this call
    postResp,   \* what doDigestPost returned to the set operation
    mresult,    \* the error the set operation returned (Nil for success)
    prevChallenge, \* history: the challenge the last earlier doDigestPost call worked with
    \* ---- getManageMinersHandler and fetchMinerConfig (ManageSpec) ----
    gpc,        \* handler position: "idle", "range", "launch", "done", "panic"
    gi,         \* index of the next machine the for loop launches a goroutine for
    gwg,        \* sync.WaitGroup counter
    grange,     \* the slice the range loop iterates over
    gtask,      \* per machine: "idle", "run", "finished", "panicked"
    ganswer,    \* history, per machine: what its configuration GET was answered
    results,    \* the results slice
    \* ---- calculateDailyRevenueEUR (RevenueSpec) ----
    rpc,        \* "idle", "wait", "done"
    myHashrateTH, \* the argument
    rwg,        \* sync.WaitGroup counter
    rtask,      \* per goroutine (1 network hashrate, 2 price): "idle", "fetch", "store", "finished"
    rfetched,   \* per goroutine: what its fetch returned, [val, err]
    networkHashrate, btcPriceEUR, err1, err2,   \* the locals the goroutines write
    rread,      \* history: the positions of the goroutines when the results were read
    revenue,    \* the value returned
    \* ---- GetThermalInsulationData (ThermalSpec) ----
    qpc,        \* "idle", "join", "sort", "done"
    powerMap, insideMap, outsideMap,    \* the three series by timestamp
    joined,     \* history: dataPoints as the join loop left it
    dataPoints, \* the slice being sorted
    si, sj,     \* the loop variables i and j of the sort
    thermal,    \* the value returned
    qstore,     \* history: [count, rows] of the answer to the power query
    \* ---- GetDailyEnergyUsage (EnergySpec) ----
    epc,        \* "idle", "done"
    dataset,    \* result.Dataset of the query
    energy,     \* the value returned
    \* ---- efficiency in the four handlers (GaugeSpec) ----
    apc,        \* "idle", "done"
    ahandler,   \* "dashboard", "status", "gauges", "miners"
    hashResult, \* what GetTotalHashrate returned
    powerResult, \* what GetTotalPower returned
    efficiency, \* the local efficiency after the computation
    divisors,   \* history: the divisors of the divisions performed
    areport,    \* the efficiency the handler reports
    \* ---- the typed telemetry helpers (HelperSpec) ----
    kpc,        \* "idle", "done"
    khelper,    \* the helper called
    kanswer,    \* what the store answered: [fail, count, dataset]
    kresult,    \* what the helper returned: [err, HasData, rows]
    \* ---- the telemetry read endpoints (EndpointSpec) ----
    vpc,        \* "idle", "done"
    vendpoint,  \* the handler called
    vresults,   \* what the helpers it called returned, in call order
    vanswer,    \* the HTTP answer
    \* ---- addMachineHandler / deleteMachineHandler (RegistrySpec) ----
    registry,   \* the rows of the machines table, in insertion order
    xpc,        \* "idle", "reload", "store", "respond", "done"
    xreq,       \* the request: [op, machine]
    xfetch,     \* what database.FetchMachines returned: [list, err]
    xanswer,    \* the answer: [status, success]
    xprev,      \* history: the snapshot before this handler's reload
    xcalls,     \* history: requests handled so far
    \* ---- parseDigestChallenge on its own (ParseSpec) ----
    dpc,        \* "idle", "done"
    dfields,    \* the fields the header was written from: [key, value, quoted]
    dheader,    \* the WWW-Authenticate header
    dresult,    \* the map returned
    \* ---- the route table and requireInnerNetwork (AccessSpec) ----
    npc,        \* "idle", "done"
    nreq,       \* the request: [route, client]
    nshow,      \* "ShowManage" as networkContextMiddleware set it
    nran,       \* whether the route's handler ran
    nanswer,    \* HTTP status of the answer
    \* ---- observation ----
    traced      \* whether this behaviour records the histories tcur and tflips

taskVars == <<tpc, tshelly, tread, terr, nOps, tflips, tcur>>
bulkVars == <<hpc, req, li, wg, mu, failed, taskVars, response>>
deviceVars == <<relay, machines>>
relayVars == <<spc, sreq, sshelly, scur, stog, sret, slog, sstatus>>
minerVars == <<mpc, mop, getResp, postBody, wire, resp1, resp2, challenge, cnonce,
               postResp, mresult, prevChallenge>>
manageVars == <<gpc, gi, gwg, grange, gtask, ganswer, results>>
revenueVars == <<rpc, myHashrateTH, rwg, rtask, rfetched, networkHashrate, btcPriceEUR,
                 err1, err2, rread, revenue>>
thermalVars == <<qpc, powerMap, insideMap, outsideMap, joined, dataPoints, si, sj, thermal,
                 qstore>>
energyVars == <<epc, dataset, energy>>
gaugeVars == <<apc, ahandler, hashResult, powerResult, efficiency, divisors, areport>>
helperVars == <<kpc, khelper, kanswer, kresult>>
endpointVars == <<vpc, vendpoint, vresults, vanswer>>
registryVars == <<registry, xpc, xreq, xfetch, xanswer, xprev, xcalls>>
parseVars == <<dpc, dfields, dheader, dresult>>
accessVars == <<npc, nreq, nshow, nran, nanswer>>
serviceVars == <<helperVars, endpointVars, registryVars, parseVars, accessVars, traced>>
readVars == <<manageVars, revenueVars, thermalVars, energyVars, gaugeVars, serviceVars>>
vars == <<bulkVars, deviceVars, relayVars, minerVars, readVars>>

----------------------------------------------------------------------------
(* Bounds *)

MaxIPs == 3         \* longest req.ips of a bulk request under Spec
MaxFairIPs == 2     \* longest req.ips of a bulk request under FairSpec

----------------------------------------------------------------------------
(* Strings *)

Q == "\""

RECURSIVE TrimLeft(_, _)
TrimLeft(s, cut) ==
    IF s # <<>> /\ Head(s) \in cut THEN TrimLeft(Tail(s), cut) ELSE s

RECURSIVE TrimRight(_, _)
TrimRight(s, cut) ==
    IF s # <<>> /\ s[Len(s)] \in cut THEN TrimRight(SubSeq(s, 1, Len(s) - 1), cut) ELSE s

\* strings.Trim(s, cutset)
Trim(s, cut) == TrimRight(TrimLeft(s, cut), cut)

\* strings.TrimSpace
TrimSpace(s) == Trim(s, {" ", "\t"})

\* strings.Index(s, c) + 1 for a one-character c; 0 when c does not occur
Index(s, c) ==
    IF \E i \in 1..Len(s) : s[i] = c
    THEN CHOOSE i \in 1..Len(s) : s[i] = c /\ \A j \in 1..(i - 1) : s[j] # c
    ELSE 0

\* strings.TrimPrefix(header, "Digest ")
TrimPrefixDigest(h) ==
    IF Len(h) >= 2 /\ h[1] = "Digest" /\ h[2] = " " THEN SubSeq(h, 3, Len(h)) ELSE h

\* strings.Contains(s, "auth")
ContainsAuth(s) == \E i \in 1..Len(s) : s[i] = "auth"

\* map[string]string
EmptyMap == [k \in {} |-> <<>>]
MapSet(m, k, v) == [x \in DOMAIN m \cup {k} |-> IF x = k THEN v ELSE m[x]]
Lookup(m, k) == IF k \in DOMAIN m THEN m[k] ELSE <<>>

\* c >= 'A' && c <= 'Z'
Upper == {"A", "B", "C", "D", "E", "F", "G", "H", "I", "J", "K", "L", "M",
          "N", "O", "P", "Q", "R", "S", "T", "U", "V", "W", "X", "Y", "Z"}

\* byte(c - 'A' + 'a')
ToLower(c) ==
    CASE c = "A" -> "a" [] c = "B" -> "b" [] c = "C" -> "c" [] c = "D" -> "d"
      [] c = "E" -> "e" [] c = "F" -> "f" [] c = "G" -> "g" [] c = "H" -> "h"
      [] c = "I" -> "i" [] c = "J" -> "j" [] c = "K" -> "k" [] c = "L" -> "l"
      [] c = "M" -> "m" [] c = "N" -> "n" [] c = "O" -> "o" [] c = "P" -> "p"
      [] c = "Q" -> "q" [] c = "R" -> "r" [] c = "S" -> "s" [] c = "T" -> "t"
      [] c = "U" -> "u" [] c = "V" -> "v" [] c = "W" -> "w" [] c = "X" -> "x"
      [] c = "Y" -> "y" [] c = "Z" -> "z"

\* camelToKebab over the characters of s; the result is the string built
RECURSIVE KebabFrom(_, _, _)
KebabFrom(s, i, result) ==
    IF i > Len(s) THEN result
    ELSE IF s[i] \in Upper
         THEN KebabFrom(s, i + 1,
                        (IF i > 1 THEN result \o "-" ELSE result) \o ToLower(s[i]))
         ELSE KebabFrom(s, i + 1, result \o s[i])

camelToKebab(s) == KebabFrom(s, 1, "")

----------------------------------------------------------------------------
(* HTTP Digest helpers *)

\* md5 followed by hex encoding: an injective constructor
md5Hash(s) == <<"md5(">> \o s \o <<")">>

\* mutant: every comma ends a part, quoted or not
SplitEveryComma(h) ==
    LET cuts       == {i \in 1..Len(h) : h[i] = ","}
        n          == Cardinality(cuts)
        cut(k)     == IF k = 0 THEN 0
                      ELSE CHOOSE i \in cuts : Cardinality({j \in cuts : j <= i}) = k
        ended      == [k \in 1..n |-> SubSeq(h, cut(k - 1) + 1, cut(k) - 1)]
        current    == SubSeq(h, cut(n) + 1, Len(h))
    IN  IF Len(current) > 0 THEN Append(ended, current) ELSE ended

\* The loop of parseDigestChallenge that cuts the header at unquoted commas.
\* inQuote flips at every double quote, so at position i it is the parity of the
\* quotes before i; a comma read while inQuote is false ends the current part
\* (an empty one too); what is left at the end is a part unless it is empty.
SplitUnquoted(h) ==
    LET inQuote(i) == Cardinality({j \in 1..(i - 1) : h[j] = Q}) % 2 = 1
        cuts       == {i \in 1..Len(h) : h[i] = "," /\ ~inQuote(i)}
        n          == Cardinality(cuts)
        cut(k)     == IF k = 0 THEN 0
                      ELSE CHOOSE i \in cuts : Cardinality({j \in cuts : j <= i}) = k
        ended      == [k \in 1..n |-> SubSeq(h, cut(k - 1) + 1, cut(k) - 1)]
        current    == SubSeq(h, cut(n) + 1, Len(h))
    IN  IF Len(current) > 0 THEN Append(ended, current) ELSE ended

\* the loop of parseDigestChallenge that turns each part into key = value
RECURSIVE ParseParts(_, _)
ParseParts(parts, result) ==
    IF parts = <<>> THEN result
    ELSE LET part == TrimSpace(Head(parts))
             idx  == Index(part, "=")
         IN  IF idx = 0
             THEN ParseParts(Tail(parts), result)
             ELSE LET key   == TrimSpace(SubSeq(part, 1, idx - 1))
                      value == Trim(TrimSpace(SubSeq(part, idx + 1, Len(part))), {Q})
                  IN  ParseParts(Tail(parts), MapSet(result, key, value))

parseDigestChallenge(header) ==
    ParseParts(SplitUnquoted(TrimPrefixDigest(header)), EmptyMap)

\* the Authorization header doDigestPost formats
AuthHeader(username, realm, nonce, uri, resp, qop, nc, cn) ==
    <<"Digest", " ", "username", "=", Q>> \o username
    \o <<Q, ",", " ", "realm", "=", Q>> \o realm
    \o <<Q, ",", " ", "nonce", "=", Q>> \o nonce
    \o <<Q, ",", " ", "uri", "=", Q>> \o uri
    \o <<Q, ",", " ", "algorithm", "=", "MD5">>
    \o <<",", " ", "response", "=", Q>> \o resp
    \o <<Q, ",", " ", "qop", "=">> \o qop
    \o <<",", " ", "nc", "=">> \o nc
    \o <<",", " ", "cnonce", "=", Q>> \o cn \o <<Q>>

minerUser == <<"user">>
minerPass == <<"pass">>
RequestURI == <<"/kaonsu/v1/miner_config">>
NC == <<"00000001">>

\* qop := challenge["qop"]; if strings.Contains(qop, "auth") { qop = "auth" }
SelectQop(ch) ==
    IF ContainsAuth(Lookup(ch, <<"qop">>)) THEN <<"auth">> ELSE Lookup(ch, <<"qop">>)

\* mutant: the qop = "auth" formula is never used
DigestResponseNoQop(ch, cn) ==
    LET realm == Lookup(ch, <<"realm">>)
        nonce == Lookup(ch, <<"nonce">>)
        ha1   == md5Hash(minerUser \o <<":">> \o realm \o <<":">> \o minerPass)
        ha2   == md5Hash(<<"POST", ":">> \o RequestURI)
    IN  md5Hash(ha1 \o <<":">> \o nonce \o <<":">> \o ha2)

\* step 3 of doDigestPost: the response hash
DigestResponse(ch, cn) ==
    LET realm == Lookup(ch, <<"realm">>)
        nonce == Lookup(ch, <<"nonce">>)
        qop   == SelectQop(ch)
        ha1   == md5Hash(minerUser \o <<":">> \o realm \o <<":">> \o minerPass)
        ha2   == md5Hash(<<"POST", ":">> \o RequestURI)
    IN  IF qop = <<"auth">>
        THEN md5Hash(ha1 \o <<":">> \o nonce \o <<":">> \o NC \o <<":">> \o cn
                     \o <<":">> \o qop \o <<":">> \o ha2)
        ELSE md5Hash(ha1 \o <<":">> \o nonce \o <<":">> \o ha2)

\* the header of the round-2 request
Round2Auth(ch, cn) ==
    AuthHeader(minerUser, Lookup(ch, <<"realm">>), Lookup(ch, <<"nonce">>), RequestURI,
               DigestResponse(ch, cn), SelectQop(ch), NC, cn)

\* randomCnonce: 8 random bytes, hex encoded
Cnonces == {<<"c1">>, <<"c2">>}

----------------------------------------------------------------------------
(* JSON values: map[string]interface{} and what it holds *)

\* One shape for every value, so that any two can be compared: t is the JSON
\* type, s the string, v the members of an object, and h, n the two limbs of a
\* number h * Limb + n.
NoMembers == [k \in {} |-> 0]
Limb == 10^8
Str(s)  == [t |-> "str", s |-> s, h |-> 0, n |-> 0, v |-> NoMembers]
Num(n)  == [t |-> "num", s |-> "", h |-> 0, n |-> n, v |-> NoMembers]
BigNum(h, n) == [t |-> "num", s |-> "", h |-> h, n |-> n, v |-> NoMembers]
Obj(f)  == [t |-> "obj", s |-> "", h |-> 0, n |-> 0, v |-> f]
EmptyObj == Obj(NoMembers)                \* make(map[string]interface{})
JNull   == [t |-> "null", s |-> "", h |-> 0, n |-> 0, v |-> NoMembers]
NotJSON == [t |-> "bad", s |-> "", h |-> 0, n |-> 0, v |-> NoMembers]     \* a body json.Unmarshal rejects
Absent  == [t |-> "absent", s |-> "", h |-> 0, n |-> 0, v |-> NoMembers]  \* m[k] of a key m does not hold

\* 2^53 .. 2^57 in limbs: from 2^e on, neighbouring float64 values are 2^(e-52) apart
Pow2 == [e \in 53..57 |->
            CASE e = 53 -> <<90071992, 54740992>>
              [] e = 54 -> <<180143985, 9481984>>
              [] e = 55 -> <<360287970, 18963968>>
              [] e = 56 -> <<720575940, 37927936>>
              [] e = 57 -> <<1441151880, 75855872>>]

\* h1 * Limb + n1 < h2 * Limb + n2
Below(h1, n1, h2, n2) == h1 < h2 \/ (h1 = h2 /\ n1 < n2)

\* the distance between neighbouring float64 values around h * Limb + n
Spacing(h, n) ==
    IF ~Below(Pow2[53][1], Pow2[53][2], h, n) THEN 1
    ELSE IF Below(h, n, Pow2[54][1], Pow2[54][2]) THEN 2
    ELSE IF Below(h, n, Pow2[55][1], Pow2[55][2]) THEN 4
    ELSE IF Below(h, n, Pow2[56][1], Pow2[56][2]) THEN 8
    ELSE IF Below(h, n, Pow2[57][1], Pow2[57][2]) THEN 16
    ELSE 32

\* a JSON number decoded into interface{} becomes a float64: the nearest
\* representable value, a tie going to the even mantissa
Float64(x) ==
    LET sp   == Spacing(x.h, x.n)
        q    == x.n % sp
        down == x.n - q
        up   == down + sp
        pick == IF q = 0 THEN x.n
                ELSE IF 2 * q < sp THEN down
                ELSE IF 2 * q > sp THEN up
                ELSE IF down % (2 * sp) = 0 THEN down ELSE up
    IN  IF pick = Limb THEN BigNum(x.h + 1, 0) ELSE BigNum(x.h, pick)

\* json.Unmarshal(body, &config): objects become maps, numbers float64
RECURSIVE Unmarshal(_)
Unmarshal(x) ==
    IF x.t = "num" THEN Float64(x)
    ELSE IF x.t = "obj" THEN Obj([k \in DOMAIN x.v |-> Unmarshal(x.v[k])])
    ELSE x

\* json.Marshal(config): a float64 is written with the shortest digits that read
\* back as the same float64, so the document sent holds the values of config
Marshal(config) == config

\* m[k] for a (possibly nil) map
Get(m, k) == IF m.t = "obj" /\ k \in DOMAIN m.v THEN m.v[k] ELSE Absent

\* x, _ := v.(map[string]interface{}); x == nil
IsMap(v) == v.t = "obj"

\* m[k] = val
SetKey(m, k, val) == Obj([x \in DOMAIN m.v \cup {k} |-> IF x = k THEN val ELSE m.v[x]])

\* json.Unmarshal(body, &config) for config of type map[string]interface{}:
\* an object or null is accepted, anything else is an error
UnmarshalOK(body) == body.t \in {"obj", "null"}

----------------------------------------------------------------------------
(* Errors and responses *)

Err(msg)  == [msg |-> msg, status |-> 0, body |-> ""]
Nil       == Err("nil")
StatusErr(status, body) == [msg |-> "miner returned status", status |-> status, body |-> body]

NoResp == [terr |-> FALSE, status |-> 0, wwwAuth |-> <<>>, body |-> ""]
PostTransportErr == [terr |-> TRUE, status |-> 0, wwwAuth |-> <<>>, body |-> ""]
PostResp(status, hdr, body) == [terr |-> FALSE, status |-> status, wwwAuth |-> hdr, body |-> body]

NoGet == [fail |-> "none", status |-> 0, body |-> Absent]
GetResp(status, body) == [fail |-> "none", status |-> status, body |-> body]
GetFail(how) == [fail |-> how, status |-> 0, body |-> Absent]

StatusOK == 200
StatusUnauthorized == 401

----------------------------------------------------------------------------
(* The three set operations up to the POST *)

PreErr(msg) == [err |-> Err(msg), body |-> Absent]
PreOK(doc)  == [err |-> Nil, body |-> doc]

\* mutant: the watts are written under the mode-select value itself
PowerTargetDocCamelKey(config, power) ==
    LET modeObj == Get(config, "mode") IN
    IF ~IsMap(modeObj) THEN PreErr("no mode section in config")
    ELSE LET mode1    == SetKey(modeObj, "work-mode-selector", Str("Auto"))
             concorde == Get(mode1, "concorde")
         IN  IF ~IsMap(concorde) THEN PreErr("no concorde section in config")
             ELSE LET c1 == SetKey(concorde, "mode-select", Str("PowerTarget"))
                      c2 == SetKey(c1, "PowerTarget", Num(power))
                  IN  PreOK(Marshal(SetKey(config, "mode", SetKey(mode1, "concorde", c2))))

\* config as it stands in memory when setMinerPowerTarget looks for concorde:
\* modeObj is the map config holds, so the write to it is a write to config
ConfigAtConcordeCheck(config) ==
    SetKey(config, "mode", SetKey(Get(config, "mode"), "work-mode-selector", Str("Auto")))

\* setMinerPowerTarget from the parsed config to json.Marshal
PowerTargetDoc(config, power) ==
    LET modeObj == Get(config, "mode") IN
    IF ~IsMap(modeObj) THEN PreErr("no mode section in config")
    ELSE LET mode1    == SetKey(modeObj, "work-mode-selector", Str("Auto"))
             concorde == Get(mode1, "concorde")
         IN  IF ~IsMap(concorde) THEN PreErr("no concorde section in config")
             ELSE LET c1 == SetKey(concorde, "mode-select", Str("PowerTarget"))
                      c2 == SetKey(c1, "power-target", Num(power))
                  IN  PreOK(Marshal(SetKey(config, "mode", SetKey(mode1, "concorde", c2))))

\* mutant: the fixed section is always made anew
FreqVoltDocFreshFixed(config, freq, volt) ==
    LET modeObj == Get(config, "mode") IN
    IF ~IsMap(modeObj) THEN PreErr("no mode section in config")
    ELSE LET mode1 == SetKey(modeObj, "work-mode-selector", Str("Fixed"))
             f1    == SetKey(EmptyObj, "freq", Num(freq))
             f2    == SetKey(f1, "volt", Num(volt))
         IN  PreOK(Marshal(SetKey(config, "mode", SetKey(mode1, "fixed", f2))))

\* setMinerFreqVolt from the parsed config to json.Marshal
FreqVoltDoc(config, freq, volt) ==
    LET modeObj == Get(config, "mode") IN
    IF ~IsMap(modeObj) THEN PreErr("no mode section in config")
    ELSE LET mode1 == SetKey(modeObj, "work-mode-selector", Str("Fixed"))
             old   == Get(mode1, "fixed")
             fixed == IF IsMap(old) THEN old ELSE EmptyObj
             f1    == SetKey(fixed, "freq", Num(freq))
             f2    == SetKey(f1, "volt", Num(volt))
         IN  PreOK(Marshal(SetKey(config, "mode", SetKey(mode1, "fixed", f2))))

\* setMinerSleepMode from the parsed config to json.Marshal
SleepDoc(config) ==
    LET modeObj == Get(config, "mode") IN
    IF ~IsMap(modeObj) THEN PreErr("no mode section in config")
    ELSE PreOK(Marshal(SetKey(config, "mode", SetKey(modeObj, "work-mode-selector", Str("Sleep")))))

\* mutant: the section checks are left out, a document without the section is
\* posted as it was fetched
PrePostSkipsSections(op, g) ==
    IF g.fail = "connect" THEN PreErr("failed to get config")
    ELSE IF g.fail = "read" THEN PreErr("failed to read config")
    ELSE IF ~UnmarshalOK(g.body) THEN PreErr("failed to parse config")
    ELSE PreOK(Marshal(Unmarshal(g.body)))

\* client.Get, io.ReadAll, json.Unmarshal, then the operation's mutation.
\* The status of the GET response is not looked at.
PrePost(op, g) ==
    IF g.fail = "connect" THEN PreErr("failed to get config")
    ELSE IF g.fail = "read" THEN PreErr("failed to read config")
    ELSE IF ~UnmarshalOK(g.body) THEN PreErr("failed to parse config")
    ELSE LET config == Unmarshal(g.body) IN
         CASE op.kind = "power"    -> PowerTargetDoc(config, op.power)
           [] op.kind = "freqvolt" -> FreqVoltDoc(config, op.freq, op.volt)
           [] op.kind = "sleep"    -> SleepDoc(config)

\* mutant: every 2xx status counts as success
PostCheck2xx(r) ==
    IF r.status < 200 \/ r.status > 299 THEN StatusErr(r.status, r.body) ELSE Nil

\* if postResp.StatusCode != http.StatusOK { return "miner returned status ..." }
PostCheck(r) ==
    IF r.status # StatusOK THEN StatusErr(r.status, r.body) ELSE Nil

\* what the set operation returns once doDigestPost has returned (r, err)
AfterPost(r) ==
    IF r.terr THEN Err("failed to post config") ELSE PostCheck(r)

\* mutant: every answer but 200 is taken for a challenge
Round1ReturnsOn200(r) == r.status = StatusOK

\* if resp.StatusCode != http.StatusUnauthorized { return resp, nil }
Round1Returns(r) == r.status # StatusUnauthorized

\* mutant: a challenge once received is kept and used again
ChallengeCached(wwwAuth, prev) ==
    IF prev # EmptyMap THEN prev ELSE parseDigestChallenge(wwwAuth)

\* challenge := parseDigestChallenge(wwwAuth): the challenge of this call;
\* prev, the challenge of the call before, is not consulted
ChallengeOf(wwwAuth, prev) == parseDigestChallenge(wwwAuth)

----------------------------------------------------------------------------
(* What the device may answer *)

Powers == {1000, 3000}
Freqs  == {500}
Volts  == {13}

DConcorde == Obj(("mode-select" :> Str("HashrateTarget")) @@ ("power-target" :> Num(3000))
                 @@ ("hashrate-target" :> Num(90)))
DFixed    == Obj(("freq" :> Num(400)) @@ ("volt" :> Num(12)) @@ ("chain" :> Num(3)))
DFull     == Obj(("mode" :> Obj(("work-mode-selector" :> Str("Sleep"))
                                @@ ("concorde" :> DConcorde) @@ ("fixed" :> DFixed)))
                 @@ ("pools" :> Str("stratum")))
DNoConcorde == Obj(("mode" :> Obj("work-mode-selector" :> Str("Auto")))
                   @@ ("pools" :> Str("stratum")))
DNoMode   == Obj("error" :> Str("busy"))
\* a document with a key the program does not know, holding the integer 2^53 + 1
DSerial   == Obj(("mode" :> Obj(("work-mode-selector" :> Str("Fixed"))
                                @@ ("concorde" :> DConcorde)))
                 @@ ("serial" :> BigNum(Pow2[53][1], Pow2[53][2] + 1)))

Docs == {DFull, DNoConcorde, DNoMode, DSerial, JNull, NotJSON}

GetStatuses == {200, 500}
GetResponses ==
    {GetFail("connect"), GetFail("read")}
    \cup {GetResp(st, b) : st \in GetStatuses, b \in Docs}

Hdr(realm, nonce, qop) ==
    <<"Digest", " ">>
    \o (IF realm = <<>> THEN <<>> ELSE <<"realm", "=", Q>> \o realm \o <<Q, ",", " ">>)
    \o (IF nonce = <<>> THEN <<>> ELSE <<"nonce", "=", Q>> \o nonce \o <<Q>>)
    \o (IF qop = <<>> THEN <<>> ELSE <<",", " ", "qop", "=", Q>> \o qop \o <<Q>>)

Challenges ==
    { Hdr(<<"r1">>, <<"n1">>, <<"auth">>),
      Hdr(<<"r1">>, <<"n2">>, <<"auth", ",", "auth", "-", "int">>),
      Hdr(<<"r1">>, <<"n1">>, <<>>),
      Hdr(<<"r2">>, <<"n3">>, <<"auth", "-", "int">>),
      Hdr(<<>>, <<"n1">>, <<"auth">>),
      Hdr(<<"r1">>, <<>>, <<"auth">>),
      <<>> }

Round1Responses ==
    {PostTransportErr}
    \cup {PostResp(st, <<>>, b) : st \in {200, 204, 500}, b \in {"ok"}}
    \cup {PostResp(StatusUnauthorized, h, "unauthorized") : h \in Challenges}

Round2Responses ==
    {PostTransportErr}
    \cup {PostResp(200, <<>>, "ok"), PostResp(204, <<>>, ""),
          PostResp(StatusUnauthorized, Hdr(<<"r1">>, <<"n2">>, <<"auth">>), "unauthorized"),
          PostResp(403, <<>>, "forbidden")}

----------------------------------------------------------------------------
(* One miner set operation, step by step (MinerSpec) *)

GetReq        == [method |-> "GET", auth |-> <<>>, body |-> Absent]
PostReq(a, b) == [method |-> "POST", auth |-> a, body |-> b]

MinerInit ==
    /\ mpc = "idle"
    /\ mop = [kind |-> "sleep", power |-> 0, freq |-> 0, volt |-> 0]
    /\ getResp = NoGet
    /\ postBody = Absent
    /\ wire = <<>>
    /\ resp1 = NoResp
    /\ resp2 = NoResp
    /\ challenge = EmptyMap
    /\ cnonce = <<>>
    /\ postResp = NoResp
    /\ mresult = Nil
    /\ prevChallenge = EmptyMap

\* a handler calls setMinerPowerTarget, setMinerFreqVolt or setMinerSleepMode
MinerStart ==
    /\ mpc \in {"idle", "done"}
    /\ \E op \in {[kind |-> "power", power |-> p, freq |-> 0, volt |-> 0] : p \in Powers}
             \cup {[kind |-> "freqvolt", power |-> 0, freq |-> f, volt |-> v] :
                       f \in Freqs, v \in Volts}
             \cup {[kind |-> "sleep", power |-> 0, freq |-> 0, volt |-> 0]} :
          mop' = op
    /\ mpc' = "get"
    /\ getResp' = NoGet
    /\ postBody' = Absent
    /\ wire' = <<>>
    /\ resp1' = NoResp
    /\ resp2' = NoResp
    /\ challenge' = EmptyMap
    /\ cnonce' = <<>>
    /\ postResp' = NoResp
    /\ mresult' = Nil
    /\ prevChallenge' = IF resp1.status = StatusUnauthorized THEN challenge ELSE prevChallenge
    /\ UNCHANGED <<bulkVars, deviceVars, relayVars, readVars>>

\* client.Get(configURL) and everything up to the call of doDigestPost
MinerGet ==
    /\ mpc = "get"
    /\ \E g \in GetResponses :
          LET pre == PrePost(mop, g) IN
          /\ getResp' = g
          /\ wire' = Append(wire, GetReq)
          /\ IF pre.err # Nil
             THEN /\ mresult' = pre.err
                  /\ mpc' = "done"
                  /\ postBody' = postBody
             ELSE /\ postBody' = pre.body
                  /\ mpc' = "post1"
                  /\ mresult' = mresult
    /\ UNCHANGED <<mop, resp1, resp2, challenge, cnonce, postResp, prevChallenge,
                   bulkVars, deviceVars, relayVars, readVars>>

\* doDigestPost, step 1: the POST without Authorization, and steps 2 and 3 on a 401
DigestRound1 ==
    /\ mpc = "post1"
    /\ \E r \in Round1Responses :
          /\ wire' = Append(wire, PostReq(<<>>, postBody))
          /\ resp1' = r
          /\ IF r.terr \/ Round1Returns(r)
             THEN /\ postResp' = r
                  /\ mresult' = AfterPost(r)
                  /\ mpc' = "done"
                  /\ UNCHANGED <<challenge, cnonce>>
             ELSE /\ challenge' = ChallengeOf(r.wwwAuth, prevChallenge)
                  /\ \E c \in Cnonces : cnonce' = c
                  /\ mpc' = "post2"
                  /\ UNCHANGED <<postResp, mresult>>
    /\ UNCHANGED <<mop, getResp, postBody, resp2, prevChallenge,
                   bulkVars, deviceVars, relayVars, readVars>>

\* doDigestPost, step 4: the POST with Authorization; its response is returned
DigestRound2 ==
    /\ mpc = "post2"
    /\ \E r \in Round2Responses :
          /\ wire' = Append(wire, PostReq(Round2Auth(challenge, cnonce), postBody))
          /\ resp2' = r
          /\ postResp' = r
          /\ mresult' = AfterPost(r)
    /\ mpc' = "done"
    /\ UNCHANGED <<mop, getResp, postBody, resp1, challenge, cnonce, prevChallenge,
                   bulkVars, deviceVars, relayVars, readVars>>

MinerNext == MinerStart \/ MinerGet \/ DigestRound1 \/ DigestRound2

----------------------------------------------------------------------------
(* Registry snapshot and relays *)

Relays == {"s1", "s2"}

\* m1 and m2 have a relay each, m3 has none configured
InitMachines ==
    << [Name |-> "a", IP |-> "m1", ShellyIP |-> "s1"],
       [Name |-> "b", IP |-> "m2", ShellyIP |-> "s2"],
       [Name |-> "c", IP |-> "m3", ShellyIP |-> ""] >>

\* mutant: a miner that is not registered is taken to hang on the first relay
shellyIPForMinerDefault(ms, minerIP) ==
    IF \E k \in 1..Len(ms) : ms[k].IP = minerIP
    THEN ms[CHOOSE k \in 1..Len(ms) : ms[k].IP = minerIP].ShellyIP
    ELSE "s1"

\* the first machine with that IP decides; "" when there is none
shellyIPForMiner(ms, minerIP) ==
    IF \E k \in 1..Len(ms) : ms[k].IP = minerIP
    THEN ms[CHOOSE k \in 1..Len(ms) :
                /\ ms[k].IP = minerIP
                /\ \A j \in 1..(k - 1) : ms[j].IP # minerIP].ShellyIP
    ELSE ""

----------------------------------------------------------------------------
(* addMachineHandler, deleteMachineHandler and db.FetchMachines (RegistrySpec) *)

MaxRegistryCalls == 2   \* add / delete requests in one behaviour

\* the names in the order SQLite sorts them
NameOrder == <<"0", "a", "b", "c", "d">>
NameRank(name) == CHOOSE k \in 1..Len(NameOrder) : NameOrder[k] = name

\* a second row for m3 that sorts first, and a machine on the relay of m1
NewMachines ==
    {[Name |-> "0", IP |-> "m3", ShellyIP |-> "s2"],
     [Name |-> "d", IP |-> "m4", ShellyIP |-> "s1"]}

\* SELECT name, ip, shelly_ip FROM machines ORDER BY name (rows of one name
\* in table order)
OrderByName(t) ==
    LET Before(i, j) == \/ NameRank(t[i].Name) < NameRank(t[j].Name)
                        \/ (t[i].Name = t[j].Name /\ i < j)
        Pos(i) == 1 + Cardinality({j \in 1..Len(t) : Before(j, i)})
    IN  [p \in 1..Len(t) |-> t[CHOOSE i \in 1..Len(t) : Pos(i) = p]]

\* FetchMachines: (nil, err) when the query or a Scan fails, the rows appended
\* so far with rows.Err() when the iteration stops on an error, else all rows
FetchOutcomes(t) ==
    LET all == OrderByName(t) IN
    {[list |-> all, err |-> "nil"],
     [list |-> <<>>, err |-> "query"],
     [list |-> <<>>, err |-> "scan"]}
    \cup {[list |-> SubSeq(all, 1, k), err |-> "rows"] : k \in 0..(Len(all) - 1)}

\* INSERT INTO machines
AddMachine(t, m) == Append(t, m)

\* DELETE FROM machines WHERE ip = ?
DeleteMachine(t, ip) == SelectSeq(t, LAMBDA m : m.IP # ip)

NoMachine == [Name |-> "", IP |-> "", ShellyIP |-> ""]
NoFetched == [list |-> <<>>, err |-> "none"]
RegistryAnswer(status, success) == [status |-> status, success |-> success]

\* the table holds the machines main loaded at start
RegistryInitOf(ms) ==
    /\ registry = ms
    /\ xpc = "idle"
    /\ xreq = [op |-> "add", machine |-> NoMachine]
    /\ xfetch = NoFetched
    /\ xanswer = RegistryAnswer(0, FALSE)
    /\ xprev = ms
    /\ xcalls = 0

RegistryInit == RegistryInitOf(InitMachines)

\* the handler up to its database write: 400 for a request that does not bind
\* (add) or names no IP (delete), 500 when the write fails
RegistryWrite ==
    /\ xpc \in {"idle", "done"}
    /\ xcalls < MaxRegistryCalls
    /\ xcalls' = xcalls + 1
    /\ xfetch' = NoFetched
    /\ \E op \in {"add", "delete"}, out \in {"badrequest", "dberror", "ok"} :
          \E m \in IF op = "add" THEN NewMachines
                   ELSE {[NoMachine EXCEPT !.IP = ip] : ip \in {"m1", "m9"}} :
             /\ xreq' = [op |-> op, machine |-> m]
             /\ IF out = "badrequest"
                THEN /\ xanswer' = RegistryAnswer(400, FALSE)
                     /\ xpc' = "done"
                     /\ registry' = registry
                ELSE IF out = "dberror"
                THEN /\ xanswer' = RegistryAnswer(500, FALSE)
                     /\ xpc' = "done"
                     /\ registry' = registry
                ELSE /\ xanswer' = RegistryAnswer(0, FALSE)
                     /\ xpc' = "reload"
                     /\ registry' = IF op = "add" THEN AddMachine(registry, m)
                                    ELSE DeleteMachine(registry, m.IP)
    /\ UNCHANGED <<xprev, bulkVars, deviceVars, relayVars, minerVars, manageVars, revenueVars,
                   thermalVars, energyVars, gaugeVars, helperVars, endpointVars,
                   parseVars, accessVars, traced>>

\* database.FetchMachines() returns
RegistryFetch ==
    /\ xpc = "reload"
    /\ \E f \in FetchOutcomes(registry) : xfetch' = f
    /\ xpc' = "store"
    /\ UNCHANGED <<registry, xreq, xanswer, xprev, xcalls,
                   bulkVars, deviceVars, relayVars, minerVars, manageVars, revenueVars,
                   thermalVars, energyVars, gaugeVars, helperVars, endpointVars,
                   parseVars, accessVars, traced>>

\* mutant: the snapshot is kept when the reload failed
StoredKeepsOnError(old, f) == IF f.err # "nil" THEN old ELSE f.list

\* machines, err = database.FetchMachines(): the global takes the list
\* returned, whatever err is
Stored(old, f) == f.list

\* the assignment to the global machines has completed
RegistryStore ==
    /\ xpc = "store"
    /\ xprev' = machines
    /\ machines' = Stored(machines, xfetch)
    /\ xpc' = "respond"
    /\ UNCHANGED <<registry, xreq, xfetch, xanswer, xcalls, relay,
                   bulkVars, relayVars, minerVars, manageVars, revenueVars,
                   thermalVars, energyVars, gaugeVars, helperVars, endpointVars,
                   parseVars, accessVars, traced>>

\* if err != nil { log.Printf(...) }; c.JSON(http.StatusOK, gin.H{"success": true, ...})
RegistryRespond ==
    /\ xpc = "respond"
    /\ xanswer' = RegistryAnswer(StatusOK, TRUE)
    /\ xpc' = "done"
    /\ UNCHANGED <<registry, xreq, xfetch, xprev, xcalls,
                   bulkVars, deviceVars, relayVars, minerVars, manageVars, revenueVars,
                   thermalVars, energyVars, gaugeVars, helperVars, endpointVars,
                   parseVars, accessVars, traced>>

RegistryNext == RegistryWrite \/ RegistryFetch \/ RegistryStore \/ RegistryRespond

\* What a read of the global machines can yield.  While another handler's
\* assignment to it is under way the read races with the write, a slice header
\* of three words: the reader gets the old slice, the new one, or the new
\* array with the old length (the cells past the new array's end are
\* unspecified memory, here zeroed).
Torn(old, new) ==
    [k \in 1..Len(old) |-> IF k <= Len(new) THEN new[k] ELSE NoMachine]

MachinesRead ==
    IF xpc = "store"
    THEN {machines, Stored(machines, xfetch), Torn(machines, Stored(machines, xfetch))}
    ELSE {machines}

\* how a Switch.GetStatus request can end: 200 with a decodable body, no
\* answer, a status other than 200, a body that does not decode
StatusOutcomes == {"ok", "unreachable", "rejected", "undecodable"}

\* how a Switch.Toggle request can end: 200, never delivered, a status other
\* than 200, delivered but the answer does not come back
ToggleOutcomes == {"ok", "unreachable", "rejected", "lost"}

\* the relay flips when the toggle request reaches it and is accepted
Flips(out) == out \in {"ok", "lost"}

\* toggleShelly returns nil only for a 200 answer
ToggleErr(out) == out # "ok"

\* mutant: the comparison with the desired state is left out
AlreadyThereNever(currentState, on) == FALSE

\* if currentState == on { return nil }
AlreadyThere(currentState, on) == currentState = on

\* the relays in rs start on or off, the others (not addressed) off
DeviceInitOf(rs, ms) ==
    /\ relay \in {r \in [Relays -> BOOLEAN] : \A s \in Relays \ rs : ~r[s]}
    /\ machines = ms

DeviceInit(rs) == DeviceInitOf(rs, InitMachines)

----------------------------------------------------------------------------
(* startMinerHandler / shutdownMinerHandler and controlShelly (RelaySpec) *)

SingleIPs == {"m1", "m2", "m3", "m9"}   \* with a relay, without one, not registered

RelayInit ==
    /\ spc = "idle"
    /\ sreq = [ip |-> "m1", on |-> FALSE]
    /\ sshelly = ""
    /\ scur = "none"
    /\ stog = "none"
    /\ sret = "none"
    /\ slog = <<>>
    /\ sstatus = 0

\* the handler binds the request and looks the relay up; without one it answers 400
SingleStart ==
    /\ spc \in {"idle", "done"}
    /\ \E ip \in SingleIPs, on \in BOOLEAN, ms \in MachinesRead :
          LET sh == shellyIPForMiner(ms, ip) IN
          /\ sreq' = [ip |-> ip, on |-> on]
          /\ sshelly' = sh
          /\ spc' = IF sh = "" THEN "done" ELSE "status"
          /\ sstatus' = IF sh = "" THEN 400 ELSE 0
    /\ scur' = "none"
    /\ stog' = "none"
    /\ sret' = "none"
    /\ slog' = <<>>
    /\ UNCHANGED <<bulkVars, deviceVars, minerVars, readVars>>

\* controlShelly: getShellyStatus and the comparison with the desired state
SingleStatus ==
    /\ spc = "status"
    /\ slog' = Append(slog, "status")
    /\ \E out \in StatusOutcomes :
          IF out # "ok"
          THEN /\ scur' = "err"
               /\ sret' = "err"
               /\ spc' = "done"
               /\ sstatus' = 500
          ELSE /\ scur' = IF relay[sshelly] THEN "on" ELSE "off"
               /\ IF AlreadyThere(relay[sshelly], sreq.on)
                  THEN /\ sret' = "nil"
                       /\ spc' = "done"
                       /\ sstatus' = 200
                  ELSE /\ spc' = "toggle"
                       /\ UNCHANGED <<sret, sstatus>>
    /\ UNCHANGED <<sreq, sshelly, stog, bulkVars, deviceVars, minerVars, readVars>>

\* controlShelly: return toggleShelly(shellyIP)
SingleToggle ==
    /\ spc = "toggle"
    /\ slog' = Append(slog, "toggle")
    /\ \E out \in ToggleOutcomes :
          /\ relay' = IF Flips(out) THEN [relay EXCEPT ![sshelly] = ~@] ELSE relay
          /\ stog' = IF ToggleErr(out) THEN "err" ELSE "nil"
          /\ sret' = IF ToggleErr(out) THEN "err" ELSE "nil"
          /\ sstatus' = IF ToggleErr(out) THEN 500 ELSE 200
    /\ spc' = "done"
    /\ UNCHANGED <<sreq, sshelly, scur, machines, bulkVars, minerVars, readVars>>

\* somebody else switches the relay: its button, its own web page, another client
OtherActor ==
    /\ \E s \in Relays : relay' = [relay EXCEPT ![s] = ~@]
    /\ UNCHANGED <<machines, relayVars, bulkVars, minerVars, readVars>>

RelayNext == SingleStart \/ SingleStatus \/ SingleToggle \/ OtherActor

----------------------------------------------------------------------------
(* A set operation as a function of the device's answers *)

\* the error setMinerPowerTarget / setMinerFreqVolt / setMinerSleepMode returns
\* when the GET is answered by g and the POSTs of doDigestPost by r1 and r2
SetOpResult(op, g, r1, r2) ==
    LET pre == PrePost(op, g) IN
    IF pre.err # Nil THEN pre.err
    ELSE IF r1.terr \/ Round1Returns(r1) THEN AfterPost(r1)
    ELSE AfterPost(r2)

MinerKinds == {"power", "freqvolt", "sleep"}
RelayKinds == {"start", "shutdown"}

BulkOp(k) == [kind |-> k, power |-> IF k = "power" THEN 1000 ELSE 0,
              freq |-> IF k = "freqvolt" THEN 500 ELSE 0,
              volt |-> IF k = "freqvolt" THEN 13 ELSE 0]

\* whether the set operation of a bulk request can succeed, and can fail,
\* over all the answers the device may give
SetOpSucceeds ==
    [k \in MinerKinds |->
        {SetOpResult(BulkOp(k), g, r1, r2) = Nil :
            g \in GetResponses, r1 \in Round1Responses, r2 \in Round2Responses}]

----------------------------------------------------------------------------
(* Bulk handlers (Spec) *)

Tasks == 1..MaxIPs
BulkIPs == {"m1", "m3"}

NoResponse == [status |-> 0, success |-> FALSE, count |-> 0, failed |-> <<>>, ips |-> <<>>]
NoRequest  == [kind |-> "sleep", ips |-> <<>>, power |-> 0, freq |-> 0, volt |-> 0]

\* all sequences over S of length at most n
SeqsUpTo(S, n) == UNION {[1..k -> S] : k \in 0..n}

BulkRequests(n) ==
    {[kind |-> k, ips |-> ips, power |-> BulkOp(k).power, freq |-> BulkOp(k).freq,
      volt |-> BulkOp(k).volt] :
        k \in MinerKinds \cup RelayKinds, ips \in SeqsUpTo(BulkIPs, n)}

FreshTasks ==
    /\ tpc = [i \in Tasks |-> "idle"]
    /\ tshelly = [i \in Tasks |-> ""]
    /\ tread = [i \in Tasks |-> <<>>]
    /\ terr = [i \in Tasks |-> "none"]
    /\ nOps = [i \in Tasks |-> 0]
    /\ tflips = [i \in Tasks |-> <<>>]
    /\ tcur = [i \in Tasks |-> "none"]

\* the goroutines of an earlier request are gone
ResetTasks ==
    /\ tpc' = [i \in Tasks |-> "idle"]
    /\ tshelly' = [i \in Tasks |-> ""]
    /\ tread' = [i \in Tasks |-> <<>>]
    /\ terr' = [i \in Tasks |-> "none"]
    /\ nOps' = [i \in Tasks |-> 0]
    /\ tflips' = [i \in Tasks |-> <<>>]
    /\ tcur' = [i \in Tasks |-> "none"]

BulkInit ==
    /\ hpc = "idle"
    /\ req = NoRequest
    /\ li = 1
    /\ wg = 0
    /\ mu = 0
    /\ failed = <<>>
    /\ FreshTasks
    /\ response = NoResponse

\* c.ShouldBindJSON succeeds; wg, mu and failed are declared
Bind(n) ==
    /\ hpc \in {"idle", "done"}
    /\ \E r \in BulkRequests(n) : req' = r
    /\ hpc' = "launch"
    /\ li' = 1
    /\ wg' = 0
    /\ mu' = 0
    /\ failed' = <<>>
    /\ ResetTasks
    /\ response' = NoResponse
    /\ UNCHANGED <<deviceVars, relayVars, minerVars, readVars>>

\* c.ShouldBindJSON fails: 400, nothing is launched
BindError ==
    /\ hpc \in {"idle", "done"}
    /\ hpc' = "done"
    /\ req' = NoRequest
    /\ li' = 1
    /\ wg' = 0
    /\ mu' = 0
    /\ failed' = <<>>
    /\ ResetTasks
    /\ response' = [NoResponse EXCEPT !.status = 400]
    /\ UNCHANGED <<deviceVars, relayVars, minerVars, readVars>>

\* the targets a start / shutdown request can name: one with a relay, one
\* registered with an empty relay address, one that is not registered
StartIPs == {"m1", "m3", "m9"}

MaxStartIPs == 1    \* longest req.ips of a bulk request (StartSpec)

\* the handlers StartSpec and BulkRaceSpec run: start, shutdown and one of
\* the miner operations
StartKinds == RelayKinds \cup {"sleep"}

\* c.ShouldBindJSON succeeds on a request of a kind in K over the targets in S
BindOf(K, S, n) ==
    /\ hpc \in {"idle", "done"}
    /\ \E k \in K, ips \in SeqsUpTo(S, n) :
          req' = [kind |-> k, ips |-> ips, power |-> BulkOp(k).power,
                  freq |-> BulkOp(k).freq, volt |-> BulkOp(k).volt]
    /\ hpc' = "launch"
    /\ li' = 1
    /\ wg' = 0
    /\ mu' = 0
    /\ failed' = <<>>
    /\ ResetTasks
    /\ response' = NoResponse
    /\ UNCHANGED <<deviceVars, relayVars, minerVars, readVars>>

\* one iteration of "for _, ip := range req.IPs": wg.Add(1); go func(minerIP)
Launch ==
    /\ hpc = "launch"
    /\ li <= Len(req.ips)
    /\ wg' = wg + 1
    /\ tpc' = [tpc EXCEPT ![li] = "start"]
    /\ li' = li + 1
    /\ UNCHANGED <<hpc, req, mu, failed, tshelly, tread, terr, nOps, tflips, tcur, response,
                   deviceVars, relayVars, minerVars, readVars>>

\* mutant: the handler does not wait for its goroutines
WaitSkipped == TRUE

\* wg.Wait() returns once the counter is zero
WaitReturns == wg = 0

\* the loop is over, wg.Wait() has returned, c.JSON(200, ...)
Respond ==
    /\ hpc = "launch"
    /\ li > Len(req.ips)
    /\ WaitReturns
    /\ response' = [status |-> 200, success |-> (Len(failed) = 0), count |-> Len(req.ips),
                    failed |-> failed, ips |-> req.ips]
    /\ hpc' = "done"
    /\ UNCHANGED <<req, li, wg, mu, failed, taskVars, deviceVars, relayVars, minerVars, readVars>>

----------------------------------------------------------------------------
(* The goroutine of one target *)

\* mutant: a failed attempt is tried again
AfterAttemptRetry(failedAttempt) == IF failedAttempt THEN "start" ELSE "exit"

\* where the goroutine goes once its attempt has ended with or without an error
AfterAttempt(failedAttempt) == IF failedAttempt THEN "lock" ELSE "exit"

\* power, freq/volt, sleep: the task calls the set operation once and looks at err
TaskMinerOp(i) ==
    /\ tpc[i] = "start"
    /\ req.kind \in MinerKinds
    /\ \E ok \in SetOpSucceeds[req.kind] :
          /\ terr' = [terr EXCEPT ![i] = IF ok THEN "ok" ELSE "err"]
          /\ tpc' = [tpc EXCEPT ![i] = AfterAttempt(~ok)]
    /\ nOps' = [nOps EXCEPT ![i] = @ + 1]
    /\ UNCHANGED <<hpc, req, li, wg, mu, failed, tshelly, tread, tflips, tcur, response,
                   deviceVars, relayVars, minerVars, readVars>>

\* start, shutdown: shellyIP := shellyIPForMiner(minerIP); if shellyIP == "" { ... }
TaskLookup(i) ==
    /\ tpc[i] = "start"
    /\ req.kind \in RelayKinds
    /\ \E ms \in MachinesRead :
          LET sh == shellyIPForMiner(ms, req.ips[i]) IN
          /\ tshelly' = [tshelly EXCEPT ![i] = sh]
          /\ IF sh = ""
             THEN /\ terr' = [terr EXCEPT ![i] = "norelay"]
                  /\ tpc' = [tpc EXCEPT ![i] = AfterAttempt(TRUE)]
             ELSE /\ terr' = terr
                  /\ tpc' = [tpc EXCEPT ![i] = "status"]
    /\ UNCHANGED <<hpc, req, li, wg, mu, failed, tread, nOps, tflips, tcur, response,
                   deviceVars, relayVars, minerVars, readVars>>

\* controlShelly: getShellyStatus and the comparison with the desired state
TaskStatus(i) ==
    /\ tpc[i] = "status"
    /\ nOps' = [nOps EXCEPT ![i] = @ + 1]
    /\ \E out \in StatusOutcomes :
          /\ tcur' = IF ~traced THEN tcur
                     ELSE [tcur EXCEPT ![i] = IF out # "ok" THEN "err"
                                              ELSE IF relay[tshelly[i]] THEN "on" ELSE "off"]
          /\ IF out # "ok"
             THEN /\ terr' = [terr EXCEPT ![i] = "err"]
                  /\ tpc' = [tpc EXCEPT ![i] = AfterAttempt(TRUE)]
             ELSE IF AlreadyThere(relay[tshelly[i]], req.kind = "start")
             THEN /\ terr' = [terr EXCEPT ![i] = "ok"]
                  /\ tpc' = [tpc EXCEPT ![i] = AfterAttempt(FALSE)]
             ELSE /\ tpc' = [tpc EXCEPT ![i] = "toggle"]
                  /\ terr' = terr
    /\ UNCHANGED <<hpc, req, li, wg, mu, failed, tshelly, tread, tflips, response,
                   deviceVars, relayVars, minerVars, readVars>>

\* controlShelly: return toggleShelly(shellyIP)
TaskToggle(i) ==
    /\ tpc[i] = "toggle"
    /\ \E out \in ToggleOutcomes :
          /\ relay' = IF Flips(out) THEN [relay EXCEPT ![tshelly[i]] = ~@] ELSE relay
          /\ tflips' = IF traced /\ Flips(out)
                       THEN [tflips EXCEPT ![i] = Append(@, ~relay[tshelly[i]])]
                       ELSE tflips
          /\ terr' = [terr EXCEPT ![i] = IF ToggleErr(out) THEN "err" ELSE "ok"]
          /\ tpc' = [tpc EXCEPT ![i] = AfterAttempt(ToggleErr(out))]
    /\ UNCHANGED <<hpc, req, li, wg, mu, failed, tshelly, tread, nOps, tcur, response,
                   machines, relayVars, minerVars, readVars>>

\* mutant: the append is not guarded, mu.Lock() lets everybody in
TaskLockNoMutex(i) ==
    /\ tpc[i] = "lock"
    /\ mu' = i
    /\ tpc' = [tpc EXCEPT ![i] = "read"]
    /\ UNCHANGED <<hpc, req, li, wg, failed, tshelly, tread, terr, nOps, tflips, tcur, response,
                   deviceVars, relayVars, minerVars, readVars>>

\* mu.Lock()
TaskLock(i) ==
    /\ tpc[i] = "lock"
    /\ mu = 0
    /\ mu' = i
    /\ tpc' = [tpc EXCEPT ![i] = "read"]
    /\ UNCHANGED <<hpc, req, li, wg, failed, tshelly, tread, terr, nOps, tflips, tcur, response,
                   deviceVars, relayVars, minerVars, readVars>>

\* failed = append(failed, minerIP): the read of failed
TaskAppendRead(i) ==
    /\ tpc[i] = "read"
    /\ tread' = [tread EXCEPT ![i] = failed]
    /\ tpc' = [tpc EXCEPT ![i] = "write"]
    /\ UNCHANGED <<hpc, req, li, wg, mu, failed, tshelly, terr, nOps, tflips, tcur, response,
                   deviceVars, relayVars, minerVars, readVars>>

\* failed = append(failed, minerIP): the write of failed
TaskAppendWrite(i) ==
    /\ tpc[i] = "write"
    /\ failed' = Append(tread[i], req.ips[i])
    /\ tread' = [tread EXCEPT ![i] = <<>>]
    /\ tpc' = [tpc EXCEPT ![i] = "unlock"]
    /\ UNCHANGED <<hpc, req, li, wg, mu, tshelly, terr, nOps, tflips, tcur, response,
                   deviceVars, relayVars, minerVars, readVars>>

\* mu.Unlock()
TaskUnlock(i) ==
    /\ tpc[i] = "unlock"
    /\ mu' = 0
    /\ tpc' = [tpc EXCEPT ![i] = "exit"]
    /\ UNCHANGED <<hpc, req, li, wg, failed, tshelly, tread, terr, nOps, tflips, tcur, response,
                   deviceVars, relayVars, minerVars, readVars>>

\* the deferred wg.Done()
TaskDone(i) ==
    /\ tpc[i] = "exit"
    /\ wg' = wg - 1
    /\ tpc' = [tpc EXCEPT ![i] = "finished"]
    /\ UNCHANGED <<hpc, req, li, mu, failed, tshelly, tread, terr, nOps, tflips, tcur, response,
                   deviceVars, relayVars, minerVars, readVars>>

TaskStep(i) ==
    \/ TaskMinerOp(i)
    \/ TaskLookup(i)
    \/ TaskStatus(i)
    \/ TaskToggle(i)
    \/ TaskLock(i)
    \/ TaskAppendRead(i)
    \/ TaskAppendWrite(i)
    \/ TaskUnlock(i)
    \/ TaskDone(i)

BulkSteps ==
    \/ BindError
    \/ Launch
    \/ Respond
    \/ \E i \in Tasks : TaskStep(i)

----------------------------------------------------------------------------
(* fetchMinerConfig and getManageMinersHandler (ManageSpec) *)

\* a document in Auto mode with a concorde section
DAuto == Obj(("mode" :> Obj(("work-mode-selector" :> Str("Auto"))
                            @@ ("concorde" :> DConcorde)))
             @@ ("pools" :> Str("stratum")))

ManageAnswers ==
    {GetFail("connect"), GetFail("read")}
    \cup {GetResp(st, b) : st \in GetStatuses, b \in Docs \cup {DAuto}}

\* the characters of the mode-select values the documents hold
Chars(s) ==
    CASE s = "PowerTarget" -> <<"P", "o", "w", "e", "r", "T", "a", "r", "g", "e", "t">>
      [] s = "HashrateTarget" ->
            <<"H", "a", "s", "h", "r", "a", "t", "e", "T", "a", "r", "g", "e", "t">>
      [] OTHER -> <<>>

\* s, _ := v.(string)
AsString(v) == IF v.t = "str" THEN v.s ELSE ""

\* if val, ok := v.(float64); ok { field = val }
AsFloat(v, old) == IF v.t = "num" THEN v ELSE old

\* MinerManageInfo{}; the documents of the model hold no arrays, so
\* ModeSelectAvailable stays nil
ZeroInfo ==
    [Name |-> "", IP |-> "", ShellyIP |-> "", Online |-> FALSE, WorkMode |-> "",
     ModeSelect |-> "", TargetValue |-> Num(0), TargetFreq |-> Num(0),
     TargetVolt |-> Num(0), ModeSelectAvailable |-> <<>>]

\* fetchMinerConfig from the parsed config on
InfoOf(config) ==
    LET info    == [ZeroInfo EXCEPT !.Online = TRUE]
        modeObj == Get(config, "mode")
    IN  IF ~IsMap(modeObj) THEN info
        ELSE LET info1 == [info EXCEPT !.WorkMode = AsString(Get(modeObj, "work-mode-selector"))]
             IN  IF info1.WorkMode = "Auto"
                 THEN LET concorde == Get(modeObj, "concorde") IN
                      IF ~IsMap(concorde) THEN info1
                      ELSE LET info2 == [info1 EXCEPT
                                           !.ModeSelect = AsString(Get(concorde, "mode-select"))]
                           IN  IF info2.ModeSelect # ""
                               THEN [info2 EXCEPT !.TargetValue =
                                        AsFloat(Get(concorde, camelToKebab(Chars(info2.ModeSelect))),
                                                @)]
                               ELSE info2
                 ELSE IF info1.WorkMode = "Fixed"
                 THEN LET fixed == Get(modeObj, "fixed") IN
                      IF ~IsMap(fixed) THEN info1
                      ELSE [info1 EXCEPT !.TargetFreq = AsFloat(Get(fixed, "freq"), @),
                                         !.TargetVolt = AsFloat(Get(fixed, "volt"), @)]
                 ELSE info1

\* fetchMinerConfig: (info, err) for the answer g of the GET
fetchMinerConfig(g) ==
    IF g.fail = "connect" THEN [info |-> ZeroInfo, err |-> "transport"]
    ELSE IF g.fail = "none" /\ g.status # StatusOK THEN [info |-> ZeroInfo, err |-> "status"]
    ELSE IF g.fail = "read" THEN [info |-> ZeroInfo, err |-> "read"]
    ELSE IF ~UnmarshalOK(g.body) THEN [info |-> ZeroInfo, err |-> "parse"]
    ELSE [info |-> InfoOf(Unmarshal(g.body)), err |-> "nil"]

ManageInit ==
    /\ gpc = "idle"
    /\ gi = 1
    /\ gwg = 0
    /\ grange = <<>>
    /\ gtask = [i \in 1..Len(InitMachines) |-> "idle"]
    /\ ganswer = [i \in 1..Len(InitMachines) |-> NoGet]
    /\ results = [i \in 1..Len(InitMachines) |-> ZeroInfo]

\* results := make([]MinerManageInfo, len(machines)); var wg sync.WaitGroup
ManageStart ==
    /\ gpc \in {"idle", "done"}
    /\ gpc' = "range"
    /\ gi' = 1
    /\ gwg' = 0
    /\ grange' = <<>>
    /\ gtask' = <<>>
    /\ ganswer' = <<>>
    /\ \E ms \in MachinesRead : results' = [i \in 1..Len(ms) |-> ZeroInfo]
    /\ UNCHANGED <<bulkVars, deviceVars, relayVars, minerVars,
                   revenueVars, thermalVars, energyVars, gaugeVars, serviceVars>>

\* "for i, m := range machines": the range expression is evaluated once, here
ManageRange ==
    /\ gpc = "range"
    /\ gpc' = "launch"
    /\ \E ms \in MachinesRead :
          /\ grange' = ms
          /\ gtask' = [i \in 1..Len(ms) |-> "idle"]
          /\ ganswer' = [i \in 1..Len(ms) |-> NoGet]
    /\ UNCHANGED <<gi, gwg, results, bulkVars, deviceVars, relayVars, minerVars,
                   revenueVars, thermalVars, energyVars, gaugeVars, serviceVars>>

\* one iteration of the loop: wg.Add(1); go func(idx, machine)
ManageLaunch ==
    /\ gpc = "launch"
    /\ gi <= Len(grange)
    /\ gwg' = gwg + 1
    /\ gtask' = [gtask EXCEPT ![gi] = "run"]
    /\ gi' = gi + 1
    /\ UNCHANGED <<gpc, grange, ganswer, results, bulkVars, deviceVars, relayVars, minerVars,
                   revenueVars, thermalVars, energyVars, gaugeVars, serviceVars>>

\* mutant: a slot outside results is quietly dropped
SlotInBoundsAlways(idx, rs) == TRUE

\* results[idx] is inside the slice; otherwise the assignment panics (index
\* out of range) in the goroutine and the process ends
SlotInBounds(idx, rs) == idx <= Len(rs)

\* the goroutine of machine idx: fetchMinerConfig, results[idx], wg.Done()
ManageFetch(idx) ==
    /\ gpc = "launch"
    /\ gtask[idx] = "run"
    /\ \E g \in ManageAnswers :
          LET r == fetchMinerConfig(g)
              m == grange[idx]
          IN  /\ ganswer' = [ganswer EXCEPT ![idx] = g]
              /\ IF SlotInBounds(idx, results)
                 THEN /\ results' = [k \in 1..Len(results) |->
                            IF k # idx THEN results[k]
                            ELSE IF r.err # "nil"
                            THEN [ZeroInfo EXCEPT !.Name = m.Name, !.IP = m.IP,
                                                  !.ShellyIP = m.ShellyIP, !.Online = FALSE]
                            ELSE [r.info EXCEPT !.Name = m.Name, !.IP = m.IP,
                                                !.ShellyIP = m.ShellyIP]]
                      /\ gtask' = [gtask EXCEPT ![idx] = "finished"]
                      /\ gwg' = gwg - 1
                      /\ gpc' = gpc
                 ELSE /\ gpc' = "panic"
                      /\ gtask' = [gtask EXCEPT ![idx] = "panicked"]
                      /\ UNCHANGED <<results, gwg>>
    /\ UNCHANGED <<gi, grange, bulkVars, deviceVars, relayVars, minerVars,
                   revenueVars, thermalVars, energyVars, gaugeVars, serviceVars>>

\* wg.Wait() has returned; the three telemetry reads do not touch results;
\* c.JSON(200, {"miners": results, ...})
ManageRespond ==
    /\ gpc = "launch"
    /\ gi > Len(grange)
    /\ gwg = 0
    /\ gpc' = "done"
    /\ UNCHANGED <<gi, gwg, grange, gtask, ganswer, results, bulkVars, deviceVars, relayVars,
                   minerVars, revenueVars, thermalVars, energyVars, gaugeVars, serviceVars>>

ManageNext ==
    \/ ManageStart
    \/ ManageRange
    \/ ManageLaunch
    \/ \E idx \in DOMAIN gtask : ManageFetch(idx)
    \/ ManageRespond

----------------------------------------------------------------------------
(* calculateDailyRevenueEUR (RevenueSpec) *)

Hashrates == {-1, 0, 100, 200}      \* myHashrateTH, in TH/s

\* what fetchNetworkHashrate can return: an error with 0, or the decoded value,
\* which is 0 when the answer does not hold the field
NetworkFetches == {[val |-> 0, err |-> "err"], [val |-> 0, err |-> "nil"],
                   [val |-> 500, err |-> "nil"], [val |-> 700, err |-> "nil"]}

\* what fetchBTCPriceEUR can return
PriceFetches == {[val |-> 0, err |-> "err"], [val |-> 0, err |-> "nil"],
                 [val |-> 60, err |-> "nil"]}

NoFetch == [val |-> 0, err |-> "none"]

\* return 0
Zero == [zero |-> TRUE, hr |-> 0, net |-> 0, price |-> 0]
NoValue == [zero |-> FALSE, hr |-> 0, net |-> 0, price |-> 0]

\* math.Round(myHashrateTH * 1e12 / networkHashrate * 144 * 3.15 * btcPriceEUR * 100) / 100
\* for a positive hashrate and network hashrate: 0 for the price 0, else a
\* value that tells the three arguments
Estimate(hr, net, price) ==
    IF price = 0 THEN Zero ELSE [zero |-> FALSE, hr |-> hr, net |-> net, price |-> price]

\* lines 249 to 265: what is returned for the locals as they are read
RevenueOf(hr, net, e1, price, e2) ==
    IF e1 # "nil" THEN Zero
    ELSE IF e2 # "nil" THEN Zero
    ELSE IF net <= 0 THEN Zero
    ELSE Estimate(hr, net, price)

RevenueInit ==
    /\ rpc = "idle"
    /\ myHashrateTH = 0
    /\ rwg = 0
    /\ rtask = [k \in 1..2 |-> "idle"]
    /\ rfetched = [k \in 1..2 |-> NoFetch]
    /\ networkHashrate = 0
    /\ btcPriceEUR = 0
    /\ err1 = "nil"
    /\ err2 = "nil"
    /\ rread = [k \in 1..2 |-> "idle"]
    /\ revenue = NoValue

\* the call: the guard on the argument, the declarations, wg.Add(2) and the two
\* go statements
RevenueCall ==
    /\ rpc \in {"idle", "done"}
    /\ \E hr \in Hashrates :
          /\ myHashrateTH' = hr
          /\ IF hr <= 0
             THEN /\ rpc' = "done"
                  /\ revenue' = Zero
                  /\ rwg' = 0
                  /\ rtask' = [k \in 1..2 |-> "idle"]
             ELSE /\ rpc' = "wait"
                  /\ revenue' = NoValue
                  /\ rwg' = 2
                  /\ rtask' = [k \in 1..2 |-> "fetch"]
    /\ rfetched' = [k \in 1..2 |-> NoFetch]
    /\ networkHashrate' = 0
    /\ btcPriceEUR' = 0
    /\ err1' = "nil"
    /\ err2' = "nil"
    /\ rread' = [k \in 1..2 |-> "idle"]
    /\ UNCHANGED <<bulkVars, deviceVars, relayVars, minerVars,
                   manageVars, thermalVars, energyVars, gaugeVars, serviceVars>>

\* goroutine k: fetchNetworkHashrate() or fetchBTCPriceEUR() returns
RevenueFetch(k) ==
    /\ rtask[k] = "fetch"
    /\ \E f \in (IF k = 1 THEN NetworkFetches ELSE PriceFetches) :
          rfetched' = [rfetched EXCEPT ![k] = f]
    /\ rtask' = [rtask EXCEPT ![k] = "store"]
    /\ UNCHANGED <<rpc, myHashrateTH, rwg, networkHashrate, btcPriceEUR, err1, err2,
                   rread, revenue, bulkVars, deviceVars, relayVars, minerVars,
                   manageVars, thermalVars, energyVars, gaugeVars, serviceVars>>

\* goroutine k: the assignment to its two locals
RevenueStore(k) ==
    /\ rtask[k] = "store"
    /\ IF k = 1
       THEN /\ networkHashrate' = rfetched[1].val
            /\ err1' = rfetched[1].err
            /\ UNCHANGED <<btcPriceEUR, err2>>
       ELSE /\ btcPriceEUR' = rfetched[2].val
            /\ err2' = rfetched[2].err
            /\ UNCHANGED <<networkHashrate, err1>>
    /\ rtask' = [rtask EXCEPT ![k] = "exit"]
    /\ UNCHANGED <<rpc, myHashrateTH, rwg, rfetched, rread, revenue,
                   bulkVars, deviceVars, relayVars, minerVars,
                   manageVars, thermalVars, energyVars, gaugeVars, serviceVars>>

\* goroutine k: the deferred wg.Done()
RevenueDone(k) ==
    /\ rtask[k] = "exit"
    /\ rwg' = rwg - 1
    /\ rtask' = [rtask EXCEPT ![k] = "finished"]
    /\ UNCHANGED <<rpc, myHashrateTH, rfetched, networkHashrate, btcPriceEUR, err1, err2,
                   rread, revenue, bulkVars, deviceVars, relayVars, minerVars,
                   manageVars, thermalVars, energyVars, gaugeVars, serviceVars>>

\* mutant: the results are read without waiting
RevenueWaitSkipped == TRUE

\* wg.Wait() returns once the counter is zero
RevenueWaitReturns == rwg = 0

\* wg.Wait() has returned: the locals are read and the value is returned
RevenueReturn ==
    /\ rpc = "wait"
    /\ RevenueWaitReturns
    /\ rread' = rtask
    /\ revenue' = RevenueOf(myHashrateTH, networkHashrate, err1, btcPriceEUR, err2)
    /\ rpc' = "done"
    /\ UNCHANGED <<myHashrateTH, rwg, rtask, rfetched, networkHashrate, btcPriceEUR,
                   err1, err2, bulkVars, deviceVars, relayVars, minerVars,
                   manageVars, thermalVars, energyVars, gaugeVars, serviceVars>>

RevenueNext ==
    \/ RevenueCall
    \/ \E k \in 1..2 : RevenueFetch(k) \/ RevenueStore(k) \/ RevenueDone(k)
    \/ RevenueReturn

----------------------------------------------------------------------------
(* Telemetry rows *)

\* A bucket timestamp "YYYY-MM-DDTHH:MM:SS.ffffffZ" is the pair of its date
\* (the first 10 characters) and the rest, each an index in ascending order;
\* strings of this one format compare as these pairs do.
Ts(d, t) == <<d, t>>
TsLess(a, b) == a[1] < b[1] \/ (a[1] = b[1] /\ a[2] < b[2])

\* ts[:10]
DateOf(ts) == ts[1]

\* a row of a dataset: n columns, of which the first is a timestamp string, a
\* string shorter than 10 characters or no string, and the second a number or not
Row(n, tsKind, ts, isNum, x) ==
    [n |-> n, tsKind |-> tsKind, ts |-> ts, isNum |-> isNum, x |-> x]
Sample(ts, x) == Row(2, "full", ts, TRUE, x)
OneColumn(ts) == Row(1, "full", ts, FALSE, 0)           \* len(row) < 2
NullTime(x) == Row(2, "null", Ts(0, 0), TRUE, x)        \* row[0] is no string
ShortTime(x) == Row(2, "short", Ts(0, 0), TRUE, x)      \* len(ts) < 10
NullValue(ts) == Row(2, "full", ts, FALSE, 0)           \* row[1] is null

\* parseFloat(row[1])
parseFloat(row) == IF row.isNum THEN row.x ELSE 0

\* a query answered with an error
QueryError == <<Row(0, "null", Ts(0, 0), FALSE, 0)>>

\* a rational num / den, den > 0
Rat(num, den) == <<num, den>>
RatEq(a, b) == a[1] * b[2] = b[1] * a[2]

----------------------------------------------------------------------------
(* GetThermalInsulationData (ThermalSpec) *)

MaxRows == 3        \* longest dataset of a query

Buckets == {Ts(1, 1), Ts(1, 2), Ts(2, 1)}

PowerRows ==
    {Sample(b, x) : b \in Buckets, x \in {50, 150}}
    \cup {OneColumn(Ts(1, 1)), NullTime(150), NullValue(Ts(1, 2))}
InsideRows == {Sample(b, 25) : b \in Buckets}
OutsideRows == {Sample(b, x) : b \in Buckets, x \in {10, 24}}

NoMap == [b \in {} |-> 0]

\* the loops at lines 1062 to 1087: a later row of a timestamp overwrites an earlier
RECURSIVE BuildMap(_, _)
BuildMap(rows, m) ==
    IF rows = <<>> THEN m
    ELSE LET row == Head(rows) IN
         IF row.n >= 2 /\ row.tsKind # "null"
         THEN BuildMap(Tail(rows),
                       [b \in DOMAIN m \cup {row.ts} |->
                           IF b = row.ts THEN parseFloat(row) ELSE m[b]])
         ELSE BuildMap(Tail(rows), m)

\* the orders in which "for ts, power := range powerMap" may visit the keys
Orders(keys) ==
    {o \in [1..Cardinality(keys) -> keys] : \A i, j \in DOMAIN o : i # j => o[i] # o[j]}

\* mutant: the power threshold is left out
QualifiesNoThreshold(ts, power) ==
    /\ ts \in DOMAIN insideMap
    /\ ts \in DOMAIN outsideMap
    /\ insideMap[ts] - outsideMap[ts] > 1

\* hasInside && hasOutside && power > 100, and deltaT > 1
Qualifies(ts, power) ==
    /\ ts \in DOMAIN insideMap
    /\ ts \in DOMAIN outsideMap
    /\ power > 100
    /\ insideMap[ts] - outsideMap[ts] > 1

\* the ThermalDataPoint appended for ts
DataPoint(ts, power) ==
    [Timestamp |-> ts, Power |-> power, InsideTemp |-> insideMap[ts],
     OutsideTemp |-> outsideMap[ts], DeltaT |-> insideMap[ts] - outsideMap[ts],
     ThermalConductance |-> Rat(power, insideMap[ts] - outsideMap[ts])]

\* the join loop, visiting the keys in the order o
RECURSIVE JoinIn(_, _)
JoinIn(o, points) ==
    IF o = <<>> THEN points
    ELSE LET ts == Head(o) IN
         IF Qualifies(ts, powerMap[ts])
         THEN JoinIn(Tail(o), Append(points, DataPoint(ts, powerMap[ts])))
         ELSE JoinIn(Tail(o), points)

NoThermal == [err |-> "none", DataPoints |-> <<>>, HasData |-> FALSE]
NoStore == [count |-> 0, rows |-> 0]

ThermalInit ==
    /\ qpc = "idle"
    /\ powerMap = NoMap
    /\ insideMap = NoMap
    /\ outsideMap = NoMap
    /\ joined = <<>>
    /\ dataPoints = <<>>
    /\ si = 1
    /\ sj = 2
    /\ thermal = NoThermal
    /\ qstore = NoStore

\* c.Query(powerQuery): an error returns; the dataset is kept as the series the
\* loop at line 1063 makes of it
ThermalQueryPower ==
    /\ qpc = "idle"
    /\ kpc = "idle"
    /\ \E ds \in SeqsUpTo(PowerRows, MaxRows) \cup {QueryError} :
          IF ds = QueryError
          THEN /\ qpc' = "done"
               /\ thermal' = [NoThermal EXCEPT !.err = "failed to query power data"]
               /\ powerMap' = NoMap
               /\ qstore' = NoStore
          ELSE /\ qpc' = "inside"
               /\ thermal' = NoThermal
               /\ powerMap' = BuildMap(ds, NoMap)
               \* result.Count is decoded from the answer and never looked at
               /\ \E count \in {0, Len(ds)} : qstore' = [count |-> count, rows |-> Len(ds)]
    /\ insideMap' = NoMap
    /\ outsideMap' = NoMap
    /\ joined' = <<>>
    /\ dataPoints' = <<>>
    /\ si' = 1
    /\ sj' = 2
    /\ UNCHANGED <<bulkVars, deviceVars, relayVars, minerVars,
                   manageVars, revenueVars, energyVars, gaugeVars, serviceVars>>

\* c.Query(insideQuery)
ThermalQueryInside ==
    /\ qpc = "inside"
    /\ \E ds \in SeqsUpTo(InsideRows, MaxRows) \cup {QueryError} :
          IF ds = QueryError
          THEN /\ qpc' = "done"
               /\ thermal' = [NoThermal EXCEPT !.err = "failed to query inside temperature"]
               /\ insideMap' = NoMap
          ELSE /\ qpc' = "outside"
               /\ thermal' = thermal
               /\ insideMap' = BuildMap(ds, NoMap)
    /\ UNCHANGED <<powerMap, outsideMap, joined, dataPoints, si, sj,
                   bulkVars, deviceVars, relayVars, minerVars,
                   manageVars, revenueVars, energyVars, gaugeVars, serviceVars, qstore>>

\* c.Query(outsideQuery)
ThermalQueryOutside ==
    /\ qpc = "outside"
    /\ \E ds \in SeqsUpTo(OutsideRows, MaxRows) \cup {QueryError} :
          IF ds = QueryError
          THEN /\ qpc' = "done"
               /\ thermal' = [NoThermal EXCEPT !.err = "failed to query outside temperature"]
               /\ outsideMap' = NoMap
          ELSE /\ qpc' = "join"
               /\ thermal' = thermal
               /\ outsideMap' = BuildMap(ds, NoMap)
    /\ UNCHANGED <<powerMap, insideMap, joined, dataPoints, si, sj,
                   bulkVars, deviceVars, relayVars, minerVars,
                   manageVars, revenueVars, energyVars, gaugeVars, serviceVars, qstore>>

\* the join loop over powerMap, in whatever order the map is iterated
ThermalJoin ==
    /\ qpc = "join"
    /\ \E o \in Orders(DOMAIN powerMap) :
          /\ dataPoints' = JoinIn(o, <<>>)
          /\ joined' = JoinIn(o, <<>>)
    /\ si' = 1
    /\ sj' = 2
    /\ qpc' = "sort"
    /\ UNCHANGED <<powerMap, insideMap, outsideMap, thermal,
                   bulkVars, deviceVars, relayVars, minerVars,
                   manageVars, revenueVars, energyVars, gaugeVars, serviceVars, qstore>>

\* mutant: the exchange is made when the two are already in order
OutOfOrderReversed(a, b) == TsLess(a.Timestamp, b.Timestamp)

\* dataPoints[i].Timestamp > dataPoints[j].Timestamp
OutOfOrder(a, b) == TsLess(b.Timestamp, a.Timestamp)

\* one pass of the inner loop body: compare, exchange, j++
ThermalCompare ==
    /\ qpc = "sort"
    /\ si <= Len(dataPoints) - 1
    /\ sj <= Len(dataPoints)
    /\ dataPoints' = IF OutOfOrder(dataPoints[si], dataPoints[sj])
                     THEN [dataPoints EXCEPT ![si] = dataPoints[sj], ![sj] = dataPoints[si]]
                     ELSE dataPoints
    /\ sj' = sj + 1
    /\ UNCHANGED <<qpc, powerMap, insideMap, outsideMap, joined, si, thermal,
                   bulkVars, deviceVars, relayVars, minerVars,
                   manageVars, revenueVars, energyVars, gaugeVars, serviceVars, qstore>>

\* the inner loop is over: i++, j := i + 1
ThermalNextI ==
    /\ qpc = "sort"
    /\ si <= Len(dataPoints) - 1
    /\ sj > Len(dataPoints)
    /\ si' = si + 1
    /\ sj' = si + 2
    /\ UNCHANGED <<qpc, powerMap, insideMap, outsideMap, joined, dataPoints, thermal,
                   bulkVars, deviceVars, relayVars, minerVars,
                   manageVars, revenueVars, energyVars, gaugeVars, serviceVars, qstore>>

\* the outer loop is over: return
ThermalReturn ==
    /\ qpc = "sort"
    /\ si > Len(dataPoints) - 1
    /\ thermal' = [err |-> "nil", DataPoints |-> dataPoints, HasData |-> Len(dataPoints) > 0]
    /\ qpc' = "done"
    /\ UNCHANGED <<powerMap, insideMap, outsideMap, joined, dataPoints, si, sj,
                   bulkVars, deviceVars, relayVars, minerVars,
                   manageVars, revenueVars, energyVars, gaugeVars, serviceVars, qstore>>

ThermalNext ==
    \/ ThermalQueryPower
    \/ ThermalQueryInside
    \/ ThermalQueryOutside
    \/ ThermalJoin
    \/ ThermalCompare
    \/ ThermalNextI
    \/ ThermalReturn

----------------------------------------------------------------------------
(* GetDailyEnergyUsage (EnergySpec) *)

EnergyRows ==
    {Sample(b, x) : b \in Buckets, x \in {100, 300}}
    \cup {OneColumn(Ts(1, 1)), NullTime(300), ShortTime(300), NullValue(Ts(2, 1))}

\* len(row) >= 2, row[0] is a string, len(ts) >= 10
Accepted(row) == row.n >= 2 /\ row.tsKind = "full"

\* the loop at lines 1160 to 1177: dayMap, date -> [totalPower, count]
RECURSIVE Accumulate(_, _)
Accumulate(rows, dayMap) ==
    IF rows = <<>> THEN dayMap
    ELSE LET row == Head(rows) IN
         IF ~Accepted(row) THEN Accumulate(Tail(rows), dayMap)
         ELSE LET date  == DateOf(row.ts)
                  power == parseFloat(row)
              IN  IF date \in DOMAIN dayMap
                  THEN Accumulate(Tail(rows),
                          [dayMap EXCEPT ![date] = [totalPower |-> @.totalPower + power,
                                                    count |-> @.count + 1]])
                  ELSE Accumulate(Tail(rows),
                          [d \in DOMAIN dayMap \cup {date} |->
                              IF d = date THEN [totalPower |-> power, count |-> 1]
                              ELSE dayMap[d]])

\* the DailyEnergyRow of one date
DayRow(date, acc) ==
    [Date |-> date,
     AvgPowerW |-> Rat(acc.totalPower, acc.count),
     EnergyKWh |-> Rat(acc.totalPower * 24, acc.count * 1000)]

\* the loop at lines 1180 to 1188, visiting dayMap in the order o
DaysIn(o, dayMap) == [k \in 1..Len(o) |-> DayRow(o[k], dayMap[o[k]])]

\* mutant: the rows are left in the order the map was iterated in
SortSliceSkipped(days) == days

RECURSIVE InsertByDate(_, _)
InsertByDate(x, sorted) ==
    IF sorted = <<>> THEN <<x>>
    ELSE IF x.Date < Head(sorted).Date THEN <<x>> \o sorted
    ELSE <<Head(sorted)>> \o InsertByDate(x, Tail(sorted))

RECURSIVE SortedByDate(_)
SortedByDate(days) ==
    IF days = <<>> THEN <<>> ELSE InsertByDate(Head(days), SortedByDate(Tail(days)))

\* sort.Slice(days, func(i, j int) bool { return days[i].Date < days[j].Date }):
\* the dates are the keys of a map, so no two rows compare equal and the
\* result is the one ascending arrangement
SortSlice(days) == SortedByDate(days)

NoEnergy == [err |-> "none", Days |-> <<>>, HasData |-> FALSE]

EnergyInit ==
    /\ epc = "idle"
    /\ dataset = <<>>
    /\ energy = NoEnergy

\* the query fails: return nil, err
EnergyQueryFails ==
    /\ epc = "idle"
    /\ dataset' = <<>>
    /\ energy' = [NoEnergy EXCEPT !.err = "failed to query daily energy usage"]
    /\ epc' = "done"
    /\ UNCHANGED <<bulkVars, deviceVars, relayVars, minerVars,
                   manageVars, revenueVars, thermalVars, gaugeVars, serviceVars>>

\* the query is answered with a dataset (result.Count is its number of rows):
\* the whole of GetDailyEnergyUsage after it
EnergyQuery ==
    /\ epc = "idle"
    /\ \E ds \in SeqsUpTo(EnergyRows, MaxRows) :
          /\ dataset' = ds
          /\ IF Len(ds) = 0
             THEN energy' = [err |-> "nil", Days |-> <<>>, HasData |-> FALSE]
             ELSE LET dayMap == Accumulate(ds, NoMap) IN
                  \E o \in Orders(DOMAIN dayMap) :
                     LET days == SortSlice(DaysIn(o, dayMap)) IN
                     energy' = [err |-> "nil", Days |-> days, HasData |-> Len(days) > 0]
    /\ epc' = "done"
    /\ UNCHANGED <<bulkVars, deviceVars, relayVars, minerVars,
                   manageVars, revenueVars, thermalVars, gaugeVars, serviceVars>>

EnergyNext == EnergyQueryFails \/ EnergyQuery

----------------------------------------------------------------------------
(* Efficiency in dashboardHandler, getStatusHandler, getGaugesHandler and
   minersHandler (GaugeSpec) *)

Handlers == {"dashboard", "status", "gauges", "miners"}

\* what GetTotalHashrate can return: an error, no data, a total in GH/s
HashResults ==
    {[err |-> TRUE, HasData |-> FALSE, TotalHashrate |-> 0],
     [err |-> FALSE, HasData |-> FALSE, TotalHashrate |-> 0]}
    \cup {[err |-> FALSE, HasData |-> TRUE, TotalHashrate |-> h] :
             h \in {-1000, 0, 1500, 1700}}

\* what GetTotalPower can return: an error, no data, a total in W
PowerResults ==
    {[err |-> TRUE, HasData |-> FALSE, TotalPower |-> 0],
     [err |-> FALSE, HasData |-> FALSE, TotalPower |-> 0]}
    \cup {[err |-> FALSE, HasData |-> TRUE, TotalPower |-> w] : w \in {0, 150, 300, 333}}

\* a / b for rationals
RatDiv(a, b) ==
    IF b[1] < 0 THEN Rat(0 - a[1] * b[2], 0 - a[2] * b[1]) ELSE Rat(a[1] * b[2], a[2] * b[1])

\* math.Round(x * 10) / 10 for x >= 0: the nearest tenth, a half going up
Round1(x) == Rat((20 * x[1] + x[2]) \div (2 * x[2]), 10)

\* mutant: the guard lets a hashrate of 0 through
HashratePositiveOrZero(hashrate) == hashrate[1] >= 0

\* if hashrate > 0
HashratePositive(hashrate) == hashrate[1] > 0

GaugeInit ==
    /\ apc = "idle"
    /\ ahandler = "dashboard"
    /\ hashResult = [err |-> FALSE, HasData |-> FALSE, TotalHashrate |-> 0]
    /\ powerResult = [err |-> FALSE, HasData |-> FALSE, TotalPower |-> 0]
    /\ efficiency = Rat(0, 1)
    /\ divisors = <<>>
    /\ areport = Rat(0, 1)

\* one of the four handlers, from its telemetry reads to the efficiency it reports
GaugeRequest ==
    /\ \E h \in Handlers, hr \in HashResults, pr \in PowerResults :
          LET hasHash  == ~hr.err /\ hr.HasData
              early    == h = "status" /\ ~hasHash
              hashrate == IF hasHash THEN Rat(hr.TotalHashrate, 1000) ELSE Rat(0, 1)
              power    == IF ~early /\ ~pr.err /\ pr.HasData THEN Rat(pr.TotalPower, 1)
                          ELSE Rat(0, 1)
              divides  == ~early /\ HashratePositive(hashrate)
              eff      == IF divides THEN RatDiv(power, hashrate) ELSE Rat(0, 1)
          IN  /\ ahandler' = h
              /\ hashResult' = hr
              /\ powerResult' = IF early THEN [err |-> FALSE, HasData |-> FALSE, TotalPower |-> 0]
                                ELSE pr
              /\ efficiency' = eff
              /\ divisors' = (IF hasHash THEN <<Rat(1000, 1)>> ELSE <<>>)
                             \o (IF divides THEN <<hashrate>> ELSE <<>>)
                             \o (IF h # "status" THEN <<Rat(10, 1)>> ELSE <<>>)
              \* a quotient whose divisor was 0 is no number to round
              /\ areport' = IF h = "status" \/ eff[2] = 0 THEN eff ELSE Round1(eff)
    /\ apc' = "done"
    /\ UNCHANGED <<bulkVars, deviceVars, relayVars, minerVars,
                   manageVars, revenueVars, thermalVars, energyVars, serviceVars>>

GaugeNext == GaugeRequest

----------------------------------------------------------------------------
(* Query and the typed helpers of the telemetry client (HelperSpec) *)

MaxHelperRows == 2      \* longest dataset the store answers a helper with

\* A row is the sequence of the kinds of its columns after json.Unmarshal into
\* []interface{}: "str" a string of 10 characters or more, "short" a shorter
\* string, "num" a float64 (the decoder yields no int or int64), "null" nil.
StoreRows ==
    {<<>>, <<"num">>, <<"null">>,
     <<"str", "num">>, <<"short", "num">>, <<"null", "num">>, <<"str", "null">>,
     <<"str", "str">>, <<"num", "num">>,
     <<"str", "str", "num">>, <<"str", "str", "null">>, <<"str", "null", "num">>,
     <<"null", "str", "num">>,
     <<"str", "str", "num", "num">>, <<"str", "null", "num", "num">>,
     <<"str", "str", "str", "str", "num", "num", "num", "num">>,
     <<"null", "null", "null", "null", "null", "null", "null", "null">>}

\* what Query can come back with: one of its four errors, or the decoded
\* QueryResult, whose Count and Dataset are two fields of the answer
QueryFailures == {"transport", "status", "read", "parse"}
StoreAnswers ==
    {[fail |-> f, count |-> 0, dataset |-> <<>>] : f \in QueryFailures}
    \cup {[fail |-> "none", count |-> c, dataset |-> ds] :
             c \in 0..MaxHelperRows, ds \in SeqsUpTo(StoreRows, MaxHelperRows)}

\* per helper: how it reads the dataset ("first" row only, "avg" the first
\* cell, "rows" every row), the least len(row), how many leading columns must
\* be strings, whether row[0] must have 10 characters, and the column that
\* must be a float64 (0 for none)
HelperShape ==
    [GetTotalHashrate |-> [shape |-> "first", cols |-> 2, strs |-> 1, long |-> FALSE, num |-> 2],
     GetMaxTemperature |-> [shape |-> "first", cols |-> 2, strs |-> 1, long |-> FALSE, num |-> 2],
     GetAvgMaxTemperature |-> [shape |-> "avg", cols |-> 1, strs |-> 0, long |-> FALSE, num |-> 0],
     GetTotalPower |-> [shape |-> "first", cols |-> 2, strs |-> 1, long |-> FALSE, num |-> 2],
     GetRoomTemperature |-> [shape |-> "first", cols |-> 2, strs |-> 1, long |-> FALSE, num |-> 2],
     GetMinerStatuses |-> [shape |-> "rows", cols |-> 8, strs |-> 0, long |-> FALSE, num |-> 0],
     GetShelliesPower |-> [shape |-> "rows", cols |-> 3, strs |-> 0, long |-> FALSE, num |-> 0],
     GetLatestEnvironmentTemperatures |->
         [shape |-> "rows", cols |-> 3, strs |-> 0, long |-> FALSE, num |-> 0],
     GetMinerTemperatures |-> [shape |-> "rows", cols |-> 4, strs |-> 2, long |-> FALSE, num |-> 0],
     GetHashboardsDetailed |-> [shape |-> "rows", cols |-> 4, strs |-> 0, long |-> FALSE, num |-> 0],
     GetEnvironmentTemperatures |->
         [shape |-> "rows", cols |-> 3, strs |-> 2, long |-> FALSE, num |-> 3],
     GetEnvironmentHumidity |-> [shape |-> "rows", cols |-> 3, strs |-> 2, long |-> FALSE, num |-> 0],
     GetEnvironmentPressure |-> [shape |-> "rows", cols |-> 3, strs |-> 2, long |-> FALSE, num |-> 0],
     GetHourlyAvgTemperature |-> [shape |-> "rows", cols |-> 2, strs |-> 0, long |-> FALSE, num |-> 0],
     GetDailyEnergyUsage |-> [shape |-> "rows", cols |-> 2, strs |-> 1, long |-> TRUE, num |-> 0]]

Helpers == DOMAIN HelperShape

\* _, ok := v.(string)
IsString(kind) == kind \in {"str", "short"}

\* the loop body of a "rows" helper appends the row (does not continue)
Keeps(h, row) ==
    LET d == HelperShape[h] IN
    /\ Len(row) >= d.cols
    /\ \A k \in 1..d.strs : IsString(row[k])
    /\ d.long => row[1] = "str"
    /\ d.num > 0 => row[d.num] = "num"

HelperErr(e) == [err |-> e, HasData |-> FALSE, rows |-> 0]
HelperNoData == [err |-> "nil", HasData |-> FALSE, rows |-> 0]
HelperData(n) == [err |-> "nil", HasData |-> n > 0, rows |-> n]

\* mutant: only the dataset is looked at
NoRowsByDataset(a) == Len(a.dataset) = 0

\* if result.Count == 0 || len(result.Dataset) == 0
NoRows(a) == a.count = 0 \/ Len(a.dataset) = 0

\* the helper h from the answer of c.Query on
HelperResult(h, a) ==
    LET d == HelperShape[h] IN
    IF a.fail # "none" THEN HelperErr("failed to query")
    ELSE IF NoRows(a) THEN HelperNoData
    ELSE IF d.shape = "first"
    THEN LET row == a.dataset[1] IN
         IF Len(row) < 2 THEN HelperErr("unexpected result format")
         ELSE IF ~IsString(row[1]) THEN HelperErr("unexpected timestamp type")
         ELSE IF row[2] # "num" THEN HelperErr("unexpected value type")
         ELSE HelperData(1)
    ELSE IF d.shape = "avg"
    THEN IF Len(a.dataset[1]) = 0 THEN HelperNoData ELSE HelperData(1)
    ELSE HelperData(Len(SelectSeq(a.dataset, LAMBDA row : Keeps(h, row))))

HelperInit ==
    /\ kpc = "idle"
    /\ khelper = "GetTotalHashrate"
    /\ kanswer = [fail |-> "none", count |-> 0, dataset |-> <<>>]
    /\ kresult = HelperNoData

\* one call of one helper
HelperCall ==
    /\ kpc = "idle"
    /\ qpc = "idle"
    /\ \E h \in Helpers, a \in StoreAnswers :
          /\ khelper' = h
          /\ kanswer' = a
          /\ kresult' = HelperResult(h, a)
    /\ kpc' = "done"
    /\ UNCHANGED <<bulkVars, deviceVars, relayVars, minerVars, manageVars, revenueVars,
                   thermalVars, energyVars, gaugeVars, endpointVars, registryVars,
                   parseVars, accessVars, traced>>

\* GetThermalInsulationData is the helper ThermalNext steps through
HelperNext == HelperCall \/ ThermalNext

----------------------------------------------------------------------------
(* The telemetry read endpoints of /api (EndpointSpec) *)

\* the helpers a handler calls, in call order; getStatusHandler calls the
\* last three only when the first returned data
EndpointHelpers ==
    [status |-> <<"GetTotalHashrate", "GetMaxTemperature", "GetRoomTemperature",
                  "GetTotalPower">>,
     gauges |-> <<"GetTotalHashrate", "GetTotalPower">>,
     environment |-> <<"GetEnvironmentTemperatures">>,
     minerTemperatures |-> <<"GetMinerTemperatures">>,
     humidity |-> <<"GetEnvironmentHumidity">>,
     pressure |-> <<"GetEnvironmentPressure">>,
     hourlyTemp |-> <<"GetHourlyAvgTemperature">>,
     thermalInsulation |-> <<"GetThermalInsulationData">>,
     dailyEnergy |-> <<"GetDailyEnergyUsage">>,
     minersStatus |-> <<"GetMinerStatuses">>,
     environmentLatest |-> <<"GetLatestEnvironmentTemperatures">>]

Endpoints == DOMAIN EndpointHelpers

\* the quantity a helper feeds in getStatusHandler and getGaugesHandler
Quantity ==
    [GetTotalHashrate |-> "hashrate", GetMaxTemperature |-> "temperature",
     GetRoomTemperature |-> "roomTemp", GetTotalPower |-> "power"]

\* what each helper can return to a handler
HelperOutcomes ==
    [h \in Helpers |-> {HelperResult(h, a) : a \in StoreAnswers}]
    @@ ("GetThermalInsulationData" :>
            {HelperErr("failed to query"), HelperNoData, HelperData(1)})

\* an answer: the HTTP status, the hasData member ("absent" when the payload
\* has none), the label, the quantities reported from data (all others are
\* reported as 0) and the number of rows in the collection of the payload
Answer(code, hasData, label, values, rows) ==
    [code |-> code, hasData |-> hasData, label |-> label, values |-> values, rows |-> rows]

NoAnswer == Answer(0, "absent", "", {}, 0)

\* mutant: the error of the helper is passed on to the client
OnQueryErrorPropagates == Answer(500, "absent", "", {}, 0)

\* if err != nil { c.JSON(http.StatusOK, gin.H{"<collection>": empty, "hasData": false}) }
OnQueryError == Answer(StatusOK, "false", "", {}, 0)

\* the quantities of the helpers hs that came back with data
FromData(hs, rs) ==
    {Quantity[hs[k]] : k \in {x \in 1..Len(rs) : rs[x].err = "nil" /\ rs[x].HasData}}

\* getStatusHandler
StatusAnswer(rs, label) ==
    IF rs[1].err # "nil" \/ ~rs[1].HasData
    THEN Answer(StatusOK, "absent", "No Data", {}, 0)
    ELSE Answer(StatusOK, "absent", label, FromData(EndpointHelpers["status"], rs), 0)

\* getGaugesHandler
GaugesAnswer(rs) == Answer(StatusOK, "absent", "", FromData(EndpointHelpers["gauges"], rs), 0)

\* the handlers of one helper: c.JSON(http.StatusOK, result) when it returned no
\* error (getMinerStatusHandler names and sorts the rows first)
ChartAnswer(r) ==
    IF r.err # "nil" THEN OnQueryError
    ELSE Answer(StatusOK, IF r.HasData THEN "true" ELSE "false", "", {}, r.rows)

EndpointInit ==
    /\ vpc = "idle"
    /\ vendpoint = "status"
    /\ vresults = <<>>
    /\ vanswer = NoAnswer

\* one request to one endpoint, from its helper calls to c.JSON
EndpointRequest ==
    /\ vpc = "idle"
    /\ \E e \in Endpoints :
          LET hs == EndpointHelpers[e] IN
          \E rs \in {x \in SeqsUpTo(UNION {HelperOutcomes[hs[k]] : k \in 1..Len(hs)}, Len(hs)) :
                        /\ Len(x) >= 1
                        /\ \A k \in 1..Len(x) : x[k] \in HelperOutcomes[hs[k]]
                        /\ IF e = "status" /\ (x[1].err # "nil" \/ ~x[1].HasData)
                           THEN Len(x) = 1 ELSE Len(x) = Len(hs)} :
             /\ vendpoint' = e
             /\ vresults' = rs
             \* isTimestampRecent(result.Timestamp, 5*time.Minute) gives the label
             /\ \E label \in {"Online", "Stale Data"} :
                   vanswer' = IF e = "status" THEN StatusAnswer(rs, label)
                              ELSE IF e = "gauges" THEN GaugesAnswer(rs)
                              ELSE ChartAnswer(rs[1])
    /\ vpc' = "done"
    /\ UNCHANGED <<bulkVars, deviceVars, relayVars, minerVars, manageVars, revenueVars,
                   thermalVars, energyVars, gaugeVars, helperVars, registryVars,
                   parseVars, accessVars, traced>>

EndpointNext == EndpointRequest

----------------------------------------------------------------------------
(* parseDigestChallenge applied to headers of key=value fields (ParseSpec) *)

MaxFields == 2      \* most fields of a header

\* values with commas, '=' and blanks inside, the empty value, a plain one
QuotedValues ==
    {<<"a">>, <<>>, <<"a", ",", "b">>, <<"a", "=", "b">>, <<",">>,
     <<"a", ",", " ", "b", "=", "c">>, <<" ", "a", ",">>}

\* realm="...", nonce="...", qop="..." and the unquoted algorithm=MD5
HeaderFields ==
    {[key |-> <<k>>, value |-> v, quoted |-> TRUE] :
        k \in {"realm", "nonce", "qop"}, v \in QuotedValues}
    \cup {[key |-> <<"algorithm">>, value |-> <<"MD5">>, quoted |-> FALSE]}

\* a comma, with or without a blank after it
Separators == {<<",">>, <<",", " ">>}

\* key=value or key="value"
FieldText(f) ==
    f.key \o <<"=">> \o (IF f.quoted THEN <<Q>> \o f.value \o <<Q>> ELSE f.value)

\* Digest field, field, ...
RECURSIVE JoinFields(_, _)
JoinFields(fs, sep) ==
    IF fs = <<>> THEN <<>>
    ELSE IF Len(fs) = 1 THEN FieldText(fs[1])
    ELSE FieldText(fs[1]) \o sep \o JoinFields(Tail(fs), sep)

HeaderText(fs, sep) == <<"Digest", " ">> \o JoinFields(fs, sep)

ParseInit ==
    /\ dpc = "idle"
    /\ dfields = <<>>
    /\ dheader = <<>>
    /\ dresult = EmptyMap

\* challenge := parseDigestChallenge(wwwAuth)
ParseChallenge ==
    /\ dpc = "idle"
    /\ \E fs \in SeqsUpTo(HeaderFields, MaxFields), sep \in Separators :
          /\ dfields' = fs
          /\ dheader' = HeaderText(fs, sep)
          /\ dresult' = parseDigestChallenge(HeaderText(fs, sep))
    /\ dpc' = "done"
    /\ UNCHANGED <<bulkVars, deviceVars, relayVars, minerVars, manageVars, revenueVars,
                   thermalVars, energyVars, gaugeVars, helperVars, endpointVars,
                   registryVars, accessVars, traced>>

ParseNext == ParseChallenge

----------------------------------------------------------------------------
(* The route table, networkContextMiddleware and requireInnerNetwork (AccessSpec) *)

\* what net.ParseIP returns: nil, or an address; v4 says it has a four-byte
\* form (To4() != nil, true for ::ffff:a.b.c.d too) with the bytes o; lo says
\* it is ::1
NilIP == [ok |-> FALSE, v4 |-> FALSE, o |-> <<0, 0, 0, 0>>, lo |-> FALSE]
V4(a, b, c, d) == [ok |-> TRUE, v4 |-> TRUE, o |-> <<a, b, c, d>>, lo |-> FALSE]
V6(lo) == [ok |-> TRUE, v4 |-> FALSE, o |-> <<0, 0, 0, 0>>, lo |-> lo]

\* c.ClientIP() texts and their parse
Clients ==
    {[text |-> "127.0.0.1", ip |-> V4(127, 0, 0, 1)],
     [text |-> "127.1.2.3", ip |-> V4(127, 1, 2, 3)],
     [text |-> "::1", ip |-> V6(TRUE)],
     [text |-> "10.0.0.1", ip |-> V4(10, 0, 0, 1)],
     [text |-> "10.0.0.255", ip |-> V4(10, 0, 0, 255)],
     [text |-> "::ffff:10.0.0.9", ip |-> V4(10, 0, 0, 9)],
     [text |-> "10.0.1.1", ip |-> V4(10, 0, 1, 1)],
     [text |-> "10.1.0.1", ip |-> V4(10, 1, 0, 1)],
     [text |-> "11.0.0.1", ip |-> V4(11, 0, 0, 1)],
     [text |-> "192.168.0.10", ip |-> V4(192, 168, 0, 10)],
     [text |-> "8.8.8.8", ip |-> V4(8, 8, 8, 8)],
     [text |-> "fe80::1", ip |-> V6(FALSE)],
     [text |-> "", ip |-> NilIP],
     [text |-> "10.0.0.256", ip |-> NilIP],
     [text |-> "10.0.0", ip |-> NilIP],
     [text |-> "localhost", ip |-> NilIP]}

ParseIP(client) == client.ip

\* ip.IsLoopback(): 127.0.0.0/8 for an address with a four-byte form, else ::1
IsLoopback(ip) == IF ip.v4 THEN ip.o[1] = 127 ELSE ip.lo

\* net.ParseCIDR("10.0.0.0/24"): the network address and its mask
innerNetwork == [IP |-> <<10, 0, 0, 0>>, Mask |-> <<255, 255, 255, 0>>]

\* innerNetwork.Contains(ip): false without a four-byte form, else the masked
\* bytes equal the network's (the mask bytes are 255 or 0)
Contains(n, ip) ==
    /\ ip.v4
    /\ \A k \in 1..4 : (IF n.Mask[k] = 255 THEN ip.o[k] ELSE 0) = n.IP[k]

\* mutant: every address that parses counts as inner
isInnerNetworkParsed(client) == ParseIP(client).ok

isInnerNetwork(client) ==
    LET ip == ParseIP(client) IN
    IF ~ip.ok THEN FALSE
    ELSE IF IsLoopback(ip) THEN TRUE
    ELSE Contains(innerNetwork, ip)

Route(method, path, guard) == [method |-> method, path |-> path, guard |-> guard]

\* the routes main registers; guard says requireInnerNetwork() is in the chain
Routes ==
    {Route("GET", "/", FALSE), Route("GET", "/miners", FALSE),
     Route("GET", "/power-mining", FALSE), Route("GET", "/environment", FALSE),
     Route("GET", "/manage", TRUE), Route("GET", "/settings", TRUE),
     Route("GET", "/api/status", FALSE), Route("GET", "/api/gauges", FALSE),
     Route("GET", "/api/charts", FALSE), Route("GET", "/api/charts/environment", FALSE),
     Route("GET", "/api/charts/miner-temperatures", FALSE),
     Route("GET", "/api/charts/humidity", FALSE), Route("GET", "/api/charts/pressure", FALSE),
     Route("GET", "/api/charts/hourly-temp", FALSE),
     Route("GET", "/api/charts/thermal-insulation", FALSE),
     Route("GET", "/api/charts/daily-energy", FALSE),
     Route("GET", "/api/miners/status", FALSE), Route("GET", "/api/environment/latest", FALSE),
     Route("GET", "/api/manage/miners", TRUE),
     Route("POST", "/api/miner/power", TRUE), Route("POST", "/api/miner/start", TRUE),
     Route("POST", "/api/miner/shutdown", TRUE),
     Route("POST", "/api/miners/power", TRUE), Route("POST", "/api/miners/freq", TRUE),
     Route("POST", "/api/miners/sleep", TRUE), Route("POST", "/api/miners/start", TRUE),
     Route("POST", "/api/miners/shutdown", TRUE),
     Route("POST", "/api/machines", TRUE), Route("DELETE", "/api/machines/:ip", TRUE)}

\* the statuses a handler that runs can answer with
HandlerStatuses == {200, 400, 500}

StatusNotFound == 404

AccessInit ==
    /\ npc = "idle"
    /\ nreq = [route |-> Route("GET", "/", FALSE), client |-> [text |-> "", ip |-> NilIP]]
    /\ nshow = FALSE
    /\ nran = FALSE
    /\ nanswer = 0

\* one request through its chain: networkContextMiddleware, then
\* requireInnerNetwork where the route has it (render404 aborts the chain),
\* then the handler
AccessRequest ==
    /\ npc = "idle"
    /\ \E route \in Routes, client \in Clients :
          /\ nreq' = [route |-> route, client |-> client]
          /\ nshow' = isInnerNetwork(client)
          /\ IF route.guard /\ ~isInnerNetwork(client)
             THEN /\ nanswer' = StatusNotFound
                  /\ nran' = FALSE
             ELSE /\ nran' = TRUE
                  /\ \E st \in HandlerStatuses : nanswer' = st
    /\ npc' = "done"
    /\ UNCHANGED <<bulkVars, deviceVars, relayVars, minerVars, manageVars, revenueVars,
                   thermalVars, energyVars, gaugeVars, helperVars, endpointVars,
                   registryVars, parseVars, traced>>

AccessNext == AccessRequest

----------------------------------------------------------------------------
(* Specifications *)

\* the state of the read paths before any request
ServiceInit(ms) ==
    /\ ManageInit /\ RevenueInit /\ ThermalInit /\ EnergyInit /\ GaugeInit
    /\ HelperInit /\ EndpointInit /\ RegistryInitOf(ms) /\ ParseInit /\ AccessInit

ReadInitOf(ms) == ServiceInit(ms) /\ traced = FALSE

ReadInit == ReadInitOf(InitMachines)

Init == BulkInit /\ DeviceInit({"s1"}) /\ RelayInit /\ MinerInit /\ ReadInit

Next == Bind(MaxIPs) \/ BulkSteps

Spec == Init /\ [][Next]_vars

FairNext == Bind(MaxFairIPs) \/ BulkSteps

\* every launched goroutine keeps being scheduled and the handler keeps running
Fairness ==
    /\ \A i \in Tasks : WF_vars(TaskStep(i))
    /\ WF_vars(Launch)
    /\ WF_vars(Respond)

FairSpec == Init /\ [][FairNext]_vars /\ Fairness

RelaySpecInit == BulkInit /\ DeviceInit(Relays) /\ RelayInit /\ MinerInit /\ ReadInit

RelaySpec == RelaySpecInit /\ [][RelayNext]_vars

MinerSpecInit == BulkInit /\ DeviceInit({}) /\ RelayInit /\ MinerInit /\ ReadInit

MinerSpec == MinerSpecInit /\ [][MinerNext]_vars

ManageSpec == MinerSpecInit /\ [][ManageNext]_vars

RevenueSpec == MinerSpecInit /\ [][RevenueNext]_vars

ThermalSpec == MinerSpecInit /\ [][ThermalNext]_vars

EnergySpec == MinerSpecInit /\ [][EnergyNext]_vars

GaugeSpec == MinerSpecInit /\ [][GaugeNext]_vars

HelperSpec == MinerSpecInit /\ [][HelperNext]_vars

EndpointSpec == MinerSpecInit /\ [][EndpointNext]_vars

RegistrySpec == MinerSpecInit /\ [][RegistryNext]_vars

\* a bulk request whose tasks may address one relay, next to somebody else
\* who switches relays
SharedRelayNext == Bind(MaxFairIPs) \/ BulkSteps \/ OtherActor

\* the relays in any state, the tasks' status reads and flips recorded
SharedRelayInit ==
    /\ BulkInit /\ DeviceInit(Relays) /\ RelayInit /\ MinerInit
    /\ ServiceInit(InitMachines) /\ traced = TRUE

SharedRelaySpec == SharedRelayInit /\ [][SharedRelayNext]_vars

ParseSpec == MinerSpecInit /\ [][ParseNext]_vars

AccessSpec == MinerSpecInit /\ [][AccessNext]_vars

\* a registry of one machine, for the handlers that run next to an add or a
\* delete of a machine
RaceMachines == <<[Name |-> "a", IP |-> "m1", ShellyIP |-> "s1"]>>

MaxRaceCalls == 1   \* add / delete requests next to the other handler

RaceInit ==
    /\ BulkInit /\ DeviceInitOf({"s1"}, RaceMachines) /\ RelayInit /\ MinerInit
    /\ ReadInitOf(RaceMachines)

\* addMachineHandler / deleteMachineHandler, at most MaxRaceCalls requests
RaceRegistry == RegistryNext /\ xcalls' <= MaxRaceCalls

\* getManageMinersHandler while machines are added and deleted
ManageRaceNext == ManageNext \/ RaceRegistry

ManageRaceSpec == RaceInit /\ [][ManageRaceNext]_vars

\* a bulk request and its tasks while machines are added and deleted
BulkRaceNext == BindOf(StartKinds, StartIPs, MaxStartIPs) \/ BulkSteps \/ RaceRegistry

BulkRaceSpec == RaceInit /\ [][BulkRaceNext]_vars

\* the start / shutdown handlers, single-target and bulk, side by side
StartNext ==
    \/ BindOf(StartKinds, StartIPs, MaxStartIPs)
    \/ BulkSteps
    \/ SingleStart
    \/ SingleStatus
    \/ SingleToggle

StartSpec == Init /\ [][StartNext]_vars

----------------------------------------------------------------------------
(* Properties *)

\* the POST requests of the running set operation, in the order sent
Posts == SelectSeq(wire, LAMBDA q : q.method = "POST")

\* a field of the Authorization header of the round-2 request, read the way a
\* server reads it
AuthField(k) == Lookup(parseDigestChallenge(Posts[2].auth), <<k>>)
AuthFields == DOMAIN parseDigestChallenge(Posts[2].auth)

\* the challenge the 401 answer of round 1 carried
Round1Challenge == parseDigestChallenge(resp1.wwwAuth)

Is2xx(st) == st >= 200 /\ st <= 299

OnOff(b) == IF b THEN "on" ELSE "off"

\* C1: controlShelly reads the relay state first; when the state read is the
\* desired one it returns nil and sends no toggle; when it differs it sends
\* exactly one toggle and returns what toggleShelly returned; no call sends
\* more than one toggle.
C1_ControlShellyIdempotent ==
    /\ slog \in {<<>>, <<"status">>, <<"status", "toggle">>}
    /\ (spc = "toggle") => (slog = <<"status">> /\ scur = OnOff(~sreq.on))
    /\ (spc = "done" /\ sshelly # "") =>
          /\ (scur = OnOff(sreq.on)) => (slog = <<"status">> /\ sret = "nil")
          /\ (scur = OnOff(~sreq.on)) =>
                (slog = <<"status", "toggle">> /\ stog # "none" /\ sret = stog)
          /\ (scur = "err") => (slog = <<"status">> /\ sret = "err")
          /\ scur # "none"

\* a call that found the relay in the other state and toggled it successfully
C1_Witness ==
    /\ spc = "done"
    /\ scur = OnOff(~sreq.on)
    /\ slog = <<"status", "toggle">>
    /\ sret = "nil"

\* how often ip occurs in the sequence f
Occurrences(f, ip) == Cardinality({k \in 1..Len(f) : f[k] = ip})

\* the positions of the request whose attempt ended in an error or found no relay
FailedTargets == {i \in 1..Len(req.ips) : terr[i] \in {"err", "norelay"}}

\* C2: when a bulk handler answers, failed holds exactly the requested targets
\* whose attempt returned an error or that have no relay configured, once per
\* occurrence in the request; success is true iff failed is empty; count is the
\* number of requested targets.
C2_FailedListExact ==
    (hpc = "done" /\ response.status = 200) =>
        /\ \A ip \in BulkIPs :
              Occurrences(response.failed, ip)
                 = Cardinality({i \in FailedTargets : req.ips[i] = ip})
        /\ Len(response.failed) = Cardinality(FailedTargets)
        /\ response.success = (response.failed = <<>>)
        /\ response.count = Len(req.ips)
        /\ response.ips = req.ips
        /\ \A i \in 1..Len(req.ips) :
              /\ terr[i] # "none"
              /\ (terr[i] = "norelay") <=>
                    (req.kind \in RelayKinds /\ shellyIPForMiner(machines, req.ips[i]) = "")

\* targets A, B, C where only B fails: count 3, failed holds B alone
C2_Witness ==
    /\ hpc = "done"
    /\ response.count = 3
    /\ terr[1] = "ok" /\ terr[2] = "err" /\ terr[3] = "ok"
    /\ response.failed = <<req.ips[2]>>
    /\ ~response.success

C4_JoinBarrier ==
    /\ [](hpc = "done" =>
            /\ \A i \in Tasks : tpc[i] \in {"idle", "finished"}
            /\ mu = 0
            /\ response.status = 200 =>
                  /\ \A i \in 1..Len(req.ips) : tpc[i] = "finished"
                  /\ response.failed = failed
                  /\ req.ips = <<>> => (response.count = 0 /\ response.success))
    /\ (hpc = "launch") ~> (hpc = "done" /\ response.status = 200)

\* an answer for two targets, both of which went through the failure list
C4_Witness ==
    /\ hpc = "done"
    /\ Len(req.ips) = 2
    /\ Len(response.failed) = 2

\* C5: round 1 goes out without Authorization; an answer other than 401 is
\* returned as it is and nothing more is sent; after a 401 exactly one more POST
\* goes out, with a Digest Authorization header holding username, realm, nonce,
\* uri, algorithm, response, qop, nc and cnonce, and its answer is returned
\* whatever its status; no call sends more than two requests.
C5_TwoRounds ==
    /\ Len(Posts) <= 2
    /\ Len(Posts) >= 1 => Posts[1].auth = <<>>
    /\ Len(Posts) = 2 =>
          /\ ~resp1.terr /\ resp1.status = StatusUnauthorized
          /\ SubSeq(Posts[2].auth, 1, 2) = <<"Digest", " ">>
          /\ {<<"username">>, <<"realm">>, <<"nonce">>, <<"uri">>, <<"algorithm">>,
              <<"response">>, <<"qop">>, <<"nc">>, <<"cnonce">>} \subseteq AuthFields
          /\ Posts[2].body = Posts[1].body
    /\ (mpc = "done" /\ Len(Posts) >= 1 /\ ~resp1.terr) =>
          IF resp1.status # StatusUnauthorized
          THEN Len(Posts) = 1 /\ postResp = resp1
          ELSE Len(Posts) = 2 /\ postResp = resp2 /\ resp2 # NoResp
    /\ (mpc = "post2") => (Len(Posts) = 1 /\ resp1.status = StatusUnauthorized)

\* round 2 was answered by 401 again, and that answer was returned
C5_Witness ==
    /\ mpc = "done"
    /\ Len(Posts) = 2
    /\ resp2.status = StatusUnauthorized
    /\ postResp = resp2

\* HA1 and HA2 of the header a round-2 request carries
HA1 == md5Hash(AuthField("username") \o <<":">> \o AuthField("realm") \o <<":">> \o minerPass)
HA2 == md5Hash(<<"POST", ":">> \o AuthField("uri"))

\* C6: the response of round 2 is hash(HA1:nonce:nc:cnonce:qop:HA2) when the
\* selected qop is "auth" and hash(HA1:nonce:HA2) otherwise; a challenge without
\* qop is no error and takes the second formula.
C6_DigestResponse ==
    Len(Posts) = 2 =>
        /\ AuthField("response") =
              IF AuthField("qop") = <<"auth">>
              THEN md5Hash(HA1 \o <<":">> \o AuthField("nonce") \o <<":">> \o AuthField("nc")
                           \o <<":">> \o AuthField("cnonce") \o <<":">> \o AuthField("qop")
                           \o <<":">> \o HA2)
              ELSE md5Hash(HA1 \o <<":">> \o AuthField("nonce") \o <<":">> \o HA2)
        /\ AuthField("cnonce") = cnonce
        /\ AuthField("uri") = RequestURI
        /\ <<"qop">> \notin DOMAIN Round1Challenge =>
              /\ AuthField("qop") = <<>>
              /\ AuthField("response") = md5Hash(HA1 \o <<":">> \o AuthField("nonce")
                                                 \o <<":">> \o HA2)

\* a challenge offering auth and auth-int, answered with qop auth
C6_Witness ==
    /\ Len(Posts) = 2
    /\ Lookup(Round1Challenge, <<"qop">>) = <<"auth", ",", "auth", "-", "int">>
    /\ AuthField("qop") = <<"auth">>

\* C7: when the 401 answer has no WWW-Authenticate challenge, or one without
\* realm or nonce, doDigestPost returns a parse error and does not send round 2.
C7_MalformedChallengeStops ==
    (~resp1.terr /\ resp1.status = StatusUnauthorized
       /\ (Lookup(Round1Challenge, <<"realm">>) = <<>>
             \/ Lookup(Round1Challenge, <<"nonce">>) = <<>>)) =>
        /\ Len(Posts) <= 1
        /\ mpc = "done" => mresult = Err("failed to post config")

\* C8: the nonce and realm of a round-2 header are those of the 401 challenge of
\* round 1 of the same call, never those an earlier call worked with; nc is the
\* literal 00000001 in every call.
C8_FreshChallenge ==
    /\ Len(Posts) = 2 =>
          /\ AuthField("nonce") = Lookup(Round1Challenge, <<"nonce">>)
          /\ AuthField("realm") = Lookup(Round1Challenge, <<"realm">>)
          /\ AuthField("nc") = <<"00000001">>
          /\ challenge = Round1Challenge
    /\ mpc \in {"get", "post1"} => challenge = EmptyMap

\* a second challenged call whose challenge differs from the one before
C8_Witness ==
    /\ Len(Posts) = 2
    /\ prevChallenge # EmptyMap
    /\ Lookup(prevChallenge, <<"nonce">>) # <<>>
    /\ Lookup(prevChallenge, <<"nonce">>) # AuthField("nonce")
    /\ Lookup(prevChallenge, <<"realm">>) # AuthField("realm")

\* C9: when the configuration GET fails in transport or is answered by a status
\* outside 2xx, the set operation returns an error and sends no POST, whatever
\* the body of that answer holds.
C9_GetFailureAborts ==
    (Len(wire) >= 1 /\ (getResp.fail # "none" \/ ~Is2xx(getResp.status))) =>
        /\ Posts = <<>>
        /\ mpc = "done"
        /\ mresult # Nil

SectionsOK(op, doc) ==
    /\ IsMap(Get(doc, "mode"))
    /\ op.kind = "power" => IsMap(Get(Get(doc, "mode"), "concorde"))

\* the GET requests of the running set operation
Gets == SelectSeq(wire, LAMBDA q : q.method = "GET")

Members(x) == IF IsMap(x) THEN x.v ELSE NoMembers

\* the keys of mode an operation writes, and the section of mode it writes into
OwnModeKeys(op) ==
    CASE op.kind = "power"    -> {"work-mode-selector", "concorde"}
      [] op.kind = "freqvolt" -> {"work-mode-selector", "fixed"}
      [] op.kind = "sleep"    -> {"work-mode-selector"}
OwnSection(op) == IF op.kind = "power" THEN "concorde" ELSE "fixed"
OwnSectionKeys(op) ==
    CASE op.kind = "power"    -> {"mode-select", "power-target"}
      [] op.kind = "freqvolt" -> {"freq", "volt"}
      [] op.kind = "sleep"    -> {}

\* p holds what f holds under every key outside own, and no other key than
\* those of f and own
SameOutside(p, f, own) ==
    /\ DOMAIN p \subseteq (DOMAIN f \cup own)
    /\ \A k \in DOMAIN f \ own : k \in DOMAIN p /\ p[k] = f[k]

\* C12: the document posted equals the document fetched except for the fields
\* of the operation: every other key, at every level, goes back with the value
\* it was fetched with.
C12_FramePreserved ==
    Posts # <<>> =>
        LET f  == getResp.body
            p  == Posts[1].body
            fm == Get(f, "mode")
            pm == Get(p, "mode")
        IN  /\ SameOutside(Members(p), Members(f), {"mode"})
            /\ SameOutside(Members(pm), Members(fm), OwnModeKeys(mop))
            /\ mop.kind # "sleep" =>
                  SameOutside(Members(Get(pm, OwnSection(mop))),
                              Members(Get(fm, OwnSection(mop))), OwnSectionKeys(mop))

\* what C12 leaves of the frame: every other key goes back with the value
\* json.Unmarshal decoded it to
C12_FrameOfDecoded ==
    Posts # <<>> =>
        LET f  == Unmarshal(getResp.body)
            p  == Posts[1].body
            fm == Get(f, "mode")
            pm == Get(p, "mode")
        IN  /\ SameOutside(Members(p), Members(f), {"mode"})
            /\ SameOutside(Members(pm), Members(fm), OwnModeKeys(mop))
            /\ mop.kind # "sleep" =>
                  SameOutside(Members(Get(pm, OwnSection(mop))),
                              Members(Get(fm, OwnSection(mop))), OwnSectionKeys(mop))

\* the characters of the mode-select value setMinerPowerTarget writes
PowerTargetChars == <<"P", "o", "w", "e", "r", "T", "a", "r", "g", "e", "t">>

\* the mode section and its concorde and fixed sections in the first POST
PostedMode == Get(Posts[1].body, "mode")
PostedConcorde == Get(PostedMode, "concorde")
PostedFixed == Get(PostedMode, "fixed")

\* the fetched document as decoded, and its mode section
FetchedConfig == Unmarshal(getResp.body)
FetchedMode == Get(FetchedConfig, "mode")

\* C13: a power-target call that posts sends work-mode-selector Auto, mode-select
\* PowerTarget and the requested watts under camelToKebab("PowerTarget"), which
\* is power-target; a document with mode but without concorde ends the call with
\* an error and without a POST, work-mode-selector being Auto already in the
\* in-memory config.
C13_PowerTargetDocument ==
    /\ camelToKebab(PowerTargetChars) = "power-target"
    /\ (mop.kind = "power" /\ Posts # <<>>) =>
          /\ Get(PostedMode, "work-mode-selector") = Str("Auto")
          /\ Get(PostedConcorde, "mode-select") = Str("PowerTarget")
          /\ Get(PostedConcorde, camelToKebab(PowerTargetChars)) = Num(mop.power)
          /\ \A q \in 1..Len(Posts) : Posts[q].body = Posts[1].body
    /\ (mop.kind = "power" /\ Len(wire) >= 1 /\ getResp.fail = "none"
          /\ IsMap(FetchedMode) /\ ~IsMap(Get(FetchedMode, "concorde"))) =>
          /\ mpc = "done"
          /\ mresult = Err("no concorde section in config")
          /\ Posts = <<>>
          /\ Get(Get(ConfigAtConcordeCheck(FetchedConfig), "mode"), "work-mode-selector")
                = Str("Auto")

\* 1000 W requested of a miner whose document held 3000 W in another mode-select
C13_Witness ==
    /\ mop.kind = "power" /\ mop.power = 1000
    /\ mpc = "done" /\ mresult = Nil
    /\ Get(Get(FetchedMode, "concorde"), "power-target") = Num(3000)
    /\ Get(Get(FetchedMode, "concorde"), "mode-select") = Str("HashrateTarget")
    /\ Get(PostedConcorde, "power-target") = Num(1000)

\* C14: a freq/volt call that posts sends work-mode-selector Fixed and the
\* requested freq and volt in mode.fixed; without a fetched fixed section the
\* one sent holds these two fields only, with one its other keys are kept.
C14_FreqVoltDocument ==
    (mop.kind = "freqvolt" /\ Posts # <<>>) =>
        /\ Get(PostedMode, "work-mode-selector") = Str("Fixed")
        /\ Get(PostedFixed, "freq") = Num(mop.freq)
        /\ Get(PostedFixed, "volt") = Num(mop.volt)
        /\ IF IsMap(Get(FetchedMode, "fixed"))
           THEN SameOutside(Members(PostedFixed), Members(Get(FetchedMode, "fixed")),
                            {"freq", "volt"})
           ELSE DOMAIN Members(PostedFixed) = {"freq", "volt"}

\* a fetched fixed section with a third key, which is sent back
C14_Witness ==
    /\ mop.kind = "freqvolt"
    /\ mpc = "done" /\ mresult = Nil
    /\ Get(Get(FetchedMode, "fixed"), "chain") = Num(3)
    /\ Get(PostedFixed, "chain") = Num(3)
    /\ Get(PostedFixed, "freq") = Num(500)

\* a fetched document without fixed section: the one sent is made anew
C14_CreatedWitness ==
    /\ mop.kind = "freqvolt"
    /\ Posts # <<>>
    /\ ~IsMap(Get(FetchedMode, "fixed"))
    /\ DOMAIN Members(PostedFixed) = {"freq", "volt"}

\* C15: a configuration document without mode section makes fetchMinerConfig
\* return an error, so getManageMinersHandler does not report the machine online.
C15_MissingModeIsError ==
    \A i \in DOMAIN gtask :
        (/\ gtask[i] = "finished"
         /\ ganswer[i].fail = "none"
         /\ ganswer[i].status = StatusOK
         /\ UnmarshalOK(ganswer[i].body)
         /\ ~IsMap(Get(Unmarshal(ganswer[i].body), "mode")))
        => (~results[i].Online /\ fetchMinerConfig(ganswer[i]).err # "nil")

\* C16: for a positive hashrate the two fetches run as two concurrent tasks, the
\* results are read only when both have finished, 0 is returned whenever either
\* fetch returned an error, and otherwise the value returned is the one of the
\* two values fetched in this call.
C16_RevenueJoin ==
    /\ rpc = "wait" => (revenue = NoValue /\ rwg = Cardinality({k \in 1..2 : rtask[k] # "finished"}))
    /\ (rpc = "done" /\ myHashrateTH <= 0) => revenue = Zero
    /\ (rpc = "done" /\ myHashrateTH > 0) =>
          /\ \A k \in 1..2 : rread[k] = "finished" /\ rtask[k] = "finished"
          /\ networkHashrate = rfetched[1].val /\ err1 = rfetched[1].err
          /\ btcPriceEUR = rfetched[2].val /\ err2 = rfetched[2].err
          /\ (rfetched[1].err # "nil" \/ rfetched[2].err # "nil") => revenue = Zero
          /\ (rfetched[1].err = "nil" /\ rfetched[2].err = "nil") =>
                revenue = IF rfetched[1].val <= 0 THEN Zero
                          ELSE Estimate(myHashrateTH, rfetched[1].val, rfetched[2].val)

\* the price fetch failed after the network hashrate had been fetched and stored
C16_Witness ==
    /\ rpc = "done"
    /\ myHashrateTH > 0
    /\ rfetched[1] = [val |-> 500, err |-> "nil"]
    /\ rfetched[2].err = "err"
    /\ revenue = Zero

\* both fetches are under way at the same time
C16_ConcurrentWitness ==
    /\ rpc = "wait"
    /\ rtask[1] = "store"
    /\ rtask[2] = "store"

\* the rows of the sequence points whose timestamp is ts
RowsAt(points, ts) == {k \in 1..Len(points) : points[k].Timestamp = ts}

\* ts is a key of all three series, power above 100, inside more than 1 above outside
InAllThree(ts) ==
    /\ ts \in DOMAIN powerMap /\ ts \in DOMAIN insideMap /\ ts \in DOMAIN outsideMap
    /\ powerMap[ts] > 100
    /\ insideMap[ts] - outsideMap[ts] > 1

\* points holds one row for each qualifying timestamp and no other row, each
\* with the values of the three series, their difference and power / deltaT
JoinOf(points) ==
    /\ \A ts \in Buckets :
          Cardinality(RowsAt(points, ts)) = IF InAllThree(ts) THEN 1 ELSE 0
    /\ \A k \in 1..Len(points) :
          LET r == points[k] IN
          /\ r.Timestamp \in Buckets
          /\ r.Power = powerMap[r.Timestamp]
          /\ r.InsideTemp = insideMap[r.Timestamp]
          /\ r.OutsideTemp = outsideMap[r.Timestamp]
          /\ r.DeltaT = r.InsideTemp - r.OutsideTemp
          /\ RatEq(r.ThermalConductance, Rat(r.Power, r.DeltaT))

\* C17: a row is emitted for ts iff ts is a key of all three series, its power is
\* above 100 and inside - outside above 1; the row holds deltaT = inside - outside
\* and thermalConductance = power / deltaT; each such ts appears exactly once.
C17_ThermalJoin ==
    /\ qpc = "sort" => JoinOf(joined)
    /\ (qpc = "done" /\ thermal.err = "nil") =>
          (JoinOf(thermal.DataPoints) /\ thermal.HasData = (thermal.DataPoints # <<>>))

\* power 150, inside 25, outside 10 at one bucket and power 50 at another that
\* has both temperatures: one row, conductance 10
C17_Witness ==
    /\ qpc = "done"
    /\ Len(thermal.DataPoints) = 1
    /\ thermal.DataPoints[1].Power = 150
    /\ thermal.DataPoints[1].DeltaT = 15
    /\ RatEq(thermal.DataPoints[1].ThermalConductance, Rat(10, 1))
    /\ \E t2 \in DOMAIN powerMap :
          /\ powerMap[t2] = 50
          /\ t2 \in DOMAIN insideMap /\ t2 \in DOMAIN outsideMap
          /\ insideMap[t2] - outsideMap[t2] > 1

\* C18: the rows returned are in strictly ascending timestamp order whatever
\* order the map was iterated in, and they are the joined rows, none lost and
\* none twice.
C18_SortedPermutation ==
    (qpc = "done" /\ thermal.err = "nil") =>
        LET out == thermal.DataPoints IN
        /\ \A k \in 1..(Len(out) - 1) : TsLess(out[k].Timestamp, out[k + 1].Timestamp)
        /\ Len(out) = Len(joined)
        /\ {out[k] : k \in 1..Len(out)} = {joined[k] : k \in 1..Len(joined)}

\* three rows joined in descending order come back ascending
C18_Witness ==
    /\ qpc = "done"
    /\ Len(joined) = 3
    /\ TsLess(joined[3].Timestamp, joined[2].Timestamp)
    /\ TsLess(joined[2].Timestamp, joined[1].Timestamp)
    /\ TsLess(thermal.DataPoints[1].Timestamp, thermal.DataPoints[2].Timestamp)
    /\ TsLess(thermal.DataPoints[2].Timestamp, thermal.DataPoints[3].Timestamp)

\* the accepted samples of the dataset whose date is d
SamplesOf(d) ==
    {k \in 1..Len(dataset) : Accepted(dataset[k]) /\ DateOf(dataset[k].ts) = d}

\* the sum of the powers of the samples in the index set ks
RECURSIVE PowerSum(_)
PowerSum(ks) ==
    IF ks = {} THEN 0
    ELSE LET k == CHOOSE x \in ks : TRUE IN parseFloat(dataset[k]) + PowerSum(ks \ {k})

\* the dates of the accepted samples
SampleDates == {DateOf(dataset[k].ts) : k \in {x \in 1..Len(dataset) : Accepted(dataset[x])}}

GaugeHashrate ==
    IF ~hashResult.err /\ hashResult.HasData THEN Rat(hashResult.TotalHashrate, 1000)
    ELSE Rat(0, 1)
GaugePower ==
    IF ~powerResult.err /\ powerResult.HasData THEN powerResult.TotalPower ELSE 0

\* C20: in the four handlers efficiency is power / hashrate when the hashrate is
\* above 0 and 0 when it is not or when there is no hashrate data; no division
\* has the divisor 0; the handler reports it (to one decimal in the dashboard,
\* gauges and miners handlers) and no error.
C20_Efficiency ==
    apc = "done" =>
        /\ IF GaugeHashrate[1] > 0
           THEN RatEq(efficiency, Rat(GaugePower * 1000, hashResult.TotalHashrate))
           ELSE efficiency = Rat(0, 1)
        /\ \A k \in 1..Len(divisors) : divisors[k][1] # 0 /\ divisors[k][2] # 0
        /\ efficiency[2] # 0
        /\ areport = IF ahandler = "status" THEN efficiency ELSE Round1(efficiency)

\* 300 W at 1.7 TH/s in the status handler: 300000 / 1700 J/TH
C20_Witness ==
    /\ apc = "done"
    /\ ahandler = "status"
    /\ hashResult.TotalHashrate = 1700
    /\ powerResult.TotalPower = 300
    /\ RatEq(efficiency, Rat(3000, 17))
    /\ areport = efficiency

\* power data and a hashrate of 0: efficiency 0 and no division by the hashrate
C20_ZeroWitness ==
    /\ apc = "done"
    /\ hashResult.HasData /\ hashResult.TotalHashrate = 0
    /\ powerResult.TotalPower = 300
    /\ efficiency = Rat(0, 1)
    /\ Len(divisors) <= 2

\* the helper accepts the row: it parses it ("first"), reads its first cell
\* ("avg") or appends it ("rows")
RowAccepted(h, row) ==
    LET d == HelperShape[h] IN
    IF d.shape = "first" THEN Len(row) >= 2 /\ IsString(row[1]) /\ row[2] = "num"
    ELSE IF d.shape = "avg" THEN Len(row) >= 1
    ELSE Keeps(h, row)

\* the rows of the answer the helper looks at, accepted or not
RowsLookedAt ==
    IF HelperShape[khelper].shape = "rows" THEN 1..Len(kanswer.dataset)
    ELSE {k \in {1} : Len(kanswer.dataset) >= 1}

\* the statement for the helpers that open with the Count / Dataset check
CountedHelpers ==
    kpc = "done" =>
        /\ (kanswer.fail = "none" /\ (kanswer.count = 0 \/ kanswer.dataset = <<>>))
              => (kresult.err = "nil" /\ ~kresult.HasData)
        /\ kresult.HasData
              => (/\ kresult.err = "nil"
                  /\ \E k \in RowsLookedAt : RowAccepted(khelper, kanswer.dataset[k]))

\* C21 as stated: every typed helper returns HasData = false and no error when
\* the store answers with count 0 or an empty dataset, and HasData = true only
\* when at least one row was accepted.
C21_EmptyIsNoData ==
    /\ CountedHelpers
    /\ (qpc = "done" /\ thermal.err = "nil") =>
          /\ (qstore.count = 0 \/ qstore.rows = 0) => ~thermal.HasData
          /\ thermal.HasData => Len(thermal.DataPoints) >= 1

\* C21 amended: as stated for an empty dataset, and for count 0 in every helper
\* but GetThermalInsulationData, which does not look at the count.
C21_EmptyDatasetIsNoData ==
    /\ CountedHelpers
    /\ (qpc = "done" /\ thermal.err = "nil") =>
          /\ qstore.rows = 0 => ~thermal.HasData
          /\ thermal.HasData => Len(thermal.DataPoints) >= 1

\* GetMinerStatuses answered with count 0 and a dataset of one full row
C21_Witness ==
    /\ kpc = "done"
    /\ khelper = "GetMinerStatuses"
    /\ kanswer.fail = "none"
    /\ kanswer.count = 0
    /\ Len(kanswer.dataset) = 1
    /\ RowAccepted(khelper, kanswer.dataset[1])
    /\ kresult = HelperNoData

\* GetThermalInsulationData answered with count 0 and rows that join
C21_ThermalWitness ==
    /\ qpc = "done"
    /\ thermal.err = "nil"
    /\ qstore.count = 0
    /\ thermal.HasData

\* the positions in the handler's call order of the helpers that returned an error
Erred == {k \in 1..Len(vresults) : vresults[k].err # "nil"}

\* C22 as stated: when a query of a telemetry endpoint fails, the handler
\* answers 200 with hasData false and an empty payload (label "No Data" and
\* zero values for the status endpoint).
C22_QueryErrorIsNoData ==
    (vpc = "done" /\ Erred # {}) =>
        /\ vanswer.code = StatusOK
        /\ vanswer.values = {}
        /\ vanswer.rows = 0
        /\ IF vendpoint = "status" THEN vanswer.label = "No Data"
           ELSE vanswer.hasData = "false"

\* C22 amended: every telemetry endpoint answers 200 whatever its queries
\* returned; the one-query endpoints answer a failed query with hasData false
\* and an empty collection; the status endpoint answers "No Data" and zeros when
\* the hashrate query fails and reports 0 for the quantity of any later query
\* that fails; the gauges endpoint, whose payload has no hasData member,
\* reports 0 for the quantity of a failed query.
C22_QueryErrorNotAFailure ==
    vpc = "done" =>
        /\ vanswer.code = StatusOK
        /\ \A k \in Erred :
              IF vendpoint = "status"
              THEN IF k = 1 THEN vanswer.label = "No Data" /\ vanswer.values = {}
                   ELSE Quantity[EndpointHelpers[vendpoint][k]] \notin vanswer.values
              ELSE IF vendpoint = "gauges"
              THEN /\ Quantity[EndpointHelpers[vendpoint][k]] \notin vanswer.values
                   /\ vanswer.hasData = "absent"
              ELSE vanswer = Answer(StatusOK, "false", "", {}, 0)

\* the miner status endpoint whose query failed
C22_Witness ==
    /\ vpc = "done"
    /\ vendpoint = "minersStatus"
    /\ Erred = {1}
    /\ vanswer.code = StatusOK
    /\ vanswer.hasData = "false"

\* the status endpoint with hashrate data and a failed power query: label
\* Online, power 0, no hasData member
C22_StatusWitness ==
    /\ vpc = "done"
    /\ vendpoint = "status"
    /\ Erred = {4}
    /\ vanswer.label = "Online"
    /\ vanswer.values = {"hashrate", "temperature", "roomTemp"}

\* C28 as stated: after a successful add or delete the snapshot is reloaded
\* before the answer is sent; when the reload fails the snapshot becomes the
\* empty list and the handler still answers success: true.
C28_FailedReloadEmpties ==
    (xpc = "done" /\ xanswer.success) =>
        /\ xanswer.status = StatusOK
        /\ xfetch.err # "none"
        /\ machines = IF xfetch.err = "nil" THEN OrderByName(registry) ELSE <<>>

\* C28 amended: the snapshot becomes whatever FetchMachines returned: all rows
\* when it succeeded, the empty list when the query or a Scan failed, the rows
\* read before the failure when the iteration failed; the previous snapshot
\* is not kept and the answer is success: true in every case.
C28_ReloadReplaces ==
    /\ xpc = "respond" => machines = xfetch.list
    /\ (xpc = "done" /\ xanswer.success) =>
          /\ xanswer.status = StatusOK
          /\ xfetch.err # "none"
          /\ machines = xfetch.list
          /\ xfetch.err = "nil" => machines = OrderByName(registry)
          /\ xfetch.err \in {"query", "scan"} => machines = <<>>
          /\ xfetch.err = "rows" =>
                \E k \in 0..(Len(registry) - 1) : machines = SubSeq(OrderByName(registry), 1, k)
    /\ (xpc = "done" /\ ~xanswer.success) => (xanswer.status \in {400, 500} /\ xfetch.err = "none")

\* an add whose reload failed on the query: success, no machine left, so no
\* relay is found for m1
C28_Witness ==
    /\ xpc = "done"
    /\ xreq.op = "add"
    /\ xanswer = RegistryAnswer(StatusOK, TRUE)
    /\ xfetch.err = "query"
    /\ xprev # <<>>
    /\ machines = <<>>
    /\ shellyIPForMiner(machines, "m1") = ""

\* a reload that failed while iterating: the snapshot is a proper, non-empty
\* part of the table
C28_PartialWitness ==
    /\ xpc = "done"
    /\ xanswer.success
    /\ xfetch.err = "rows"
    /\ machines # <<>>
    /\ Len(machines) < Len(registry)

----------------------------------------------------------------------------
(* C30: a target without a relay fails before any relay request *)

\* the miner is not in the machines list, or is there with an empty relay address
NoRelayFor(ip) ==
    \/ \A k \in 1..Len(machines) : machines[k].IP # ip
    \/ \E k \in 1..Len(machines) :
          /\ machines[k].IP = ip
          /\ \A j \in 1..(k - 1) : machines[j].IP # ip
          /\ machines[k].ShellyIP = ""

\* C30: in startMinerHandler / shutdownMinerHandler and in every task of
\* startAllMiners / shutdownAllMiners a miner IP that is not in the machines
\* list, or is there with an empty relay address, ends in a failure (HTTP 400
\* for the single handlers, an entry in failed for the bulk ones) and no
\* status or toggle request is sent to a relay on its behalf.
C30_NoRelayFailsWithoutRequest ==
    /\ (spc = "done" /\ NoRelayFor(sreq.ip)) =>
          /\ sstatus = 400
          /\ slog = <<>>
          /\ sshelly = ""
    /\ (spc \in {"status", "toggle"}) => ~NoRelayFor(sreq.ip)
    /\ \A i \in 1..Len(req.ips) :
          (req.kind \in RelayKinds /\ NoRelayFor(req.ips[i])) =>
             /\ nOps[i] = 0
             /\ tpc[i] \notin {"status", "toggle"}
             /\ tpc[i] \notin {"idle", "start"} => terr[i] = "norelay"
             /\ tpc[i] = "finished" => Occurrences(failed, req.ips[i]) >= 1
             /\ hpc = "done" =>
                   /\ Occurrences(response.failed, req.ips[i]) >= 1
                   /\ ~response.success

\* C30 witness: a bulk start naming an unregistered miner has answered with
\* that miner in failed, while a single start of a miner whose relay address
\* is empty has answered 400
C30_Witness ==
    /\ hpc = "done"
    /\ req.kind = "start"
    /\ req.ips = <<"m9">>
    /\ response.failed = <<"m9">>
    /\ spc = "done"
    /\ sreq.ip = "m3"
    /\ sstatus = 400

\* C30 witness: the other two cases, an empty relay address in a bulk shutdown
\* and an unregistered miner in a single handler
C30_OtherWitness ==
    /\ hpc = "done"
    /\ req.kind = "shutdown"
    /\ req.ips = <<"m3">>
    /\ response.failed = <<"m3">>
    /\ spc = "done"
    /\ sreq.ip = "m9"
    /\ sstatus = 400
    /\ slog = <<>>

----------------------------------------------------------------------------
(* C24: interference between controlShelly's status read and its toggle *)

\* the output a start / shutdown request wants
Desired == req.kind = "start"

\* the relay is as task i's status read found it
Undisturbed(i) == tcur[i] = OnOff(relay[tshelly[i]])

\* C24: when another actor (somebody at the relay, or a second task of the
\* same bulk start / shutdown addressing the same relay) switches the relay
\* between a controlShelly call's status read and its toggle, the call flips
\* the relay at most once; and a call that is not interfered with leaves the
\* relay in the desired state whenever its requests reach the relay: it
\* skips the toggle exactly when the relay is already there, and its toggle,
\* sent while the relay is still as read, produces the desired output.
C24_OneFlipThenCorrected ==
    /\ [](\A i \in Tasks : Len(tflips[i]) <= 1)
    /\ [][\A i \in Tasks :
            /\ (tpc[i] = "status" /\ tpc'[i] # "status" /\ tcur'[i] # "err") =>
                  IF relay[tshelly[i]] = Desired
                  THEN tpc'[i] = "exit" /\ terr'[i] = "ok"
                  ELSE tpc'[i] = "toggle"
            /\ (tpc[i] = "toggle" /\ Undisturbed(i) /\ tflips'[i] # tflips[i]) =>
                  /\ relay'[tshelly[i]] = Desired
                  /\ tflips'[i] = <<Desired>>]_vars

\* C24 witness: a bulk start that names m1 twice has answered success; both
\* tasks read the relay off, the first toggle switched it on, the second
\* switched it off again: one unwanted flip, the relay is left off
C24_Witness ==
    /\ hpc = "done"
    /\ req.kind = "start"
    /\ req.ips = <<"m1", "m1">>
    /\ response.success
    /\ tcur[1] = "off" /\ tcur[2] = "off"
    /\ {tflips[1], tflips[2]} = {<<TRUE>>, <<FALSE>>}
    /\ ~relay["s1"]

\* C24 witness: a single task whose relay somebody else switched between its
\* status read and its toggle
C24_OtherActorWitness ==
    /\ hpc = "done"
    /\ req.kind = "shutdown"
    /\ req.ips = <<"m1">>
    /\ tcur[1] = "on"
    /\ tflips[1] = <<TRUE>>
    /\ response.success

\* C24 witness: a call nobody interfered with has switched the relay to the
\* desired output
C24_CorrectedWitness ==
    /\ hpc = "done"
    /\ req.kind = "start"
    /\ req.ips = <<"m1">>
    /\ tcur[1] = "off"
    /\ tflips[1] = <<TRUE>>
    /\ relay["s1"]

----------------------------------------------------------------------------
(* C25: the qop doDigestPost answers with *)

\* the qop values the round-1 challenge offers: its qop field split at commas
QopOffered ==
    LET parts == SplitUnquoted(Lookup(Round1Challenge, <<"qop">>))
    IN  {TrimSpace(parts[k]) : k \in 1..Len(parts)}

\* C25: doDigestPost answers with qop "auth" exactly when the token auth is
\* among the qop values the challenge offers; when it is not (only auth-int,
\* or no qop) the qop is not switched to "auth" and the response is the hash
\* without nc and cnonce.
C25_AuthExactlyWhenOffered ==
    Len(Posts) = 2 =>
        /\ (AuthField("qop") = <<"auth">>) <=> (<<"auth">> \in QopOffered)
        /\ <<"auth">> \notin QopOffered =>
              AuthField("response") = md5Hash(HA1 \o <<":">> \o AuthField("nonce")
                                              \o <<":">> \o HA2)

----------------------------------------------------------------------------
(* C26: quoted values with delimiters inside *)

\* the last field of the header written with that key
LastField(key) ==
    dfields[CHOOSE k \in 1..Len(dfields) :
               /\ dfields[k].key = key
               /\ \A j \in (k + 1)..Len(dfields) : dfields[j].key # key]

\* C26: parseDigestChallenge splits the header only at commas outside double
\* quotes: for a header of key=value fields the map has the keys of the fields
\* and no others, and each key holds its value whole, quotes removed, also
\* when the quoted value contains commas, '=' or blanks.
C26_QuotedValuesWhole ==
    dpc = "done" =>
        /\ DOMAIN dresult = {dfields[k].key : k \in 1..Len(dfields)}
        /\ \A key \in DOMAIN dresult : dresult[key] = LastField(key).value

\* C26 witness: realm="a, b=c" followed by qop="a,b" came back as two fields
\* with their values whole
C26_Witness ==
    /\ dpc = "done"
    /\ Len(dfields) = 2
    /\ dfields[1] = [key |-> <<"realm">>, quoted |-> TRUE,
                     value |-> <<"a", ",", " ", "b", "=", "c">>]
    /\ dfields[2] = [key |-> <<"qop">>, quoted |-> TRUE, value |-> <<"a", ",", "b">>]
    /\ DOMAIN dresult = {<<"realm">>, <<"qop">>}
    /\ dresult[<<"realm">>] = <<"a", ",", " ", "b", "=", "c">>
    /\ dresult[<<"qop">>] = <<"a", ",", "b">>

----------------------------------------------------------------------------
(* C29: the control routes are closed to clients outside the inner network *)

\* the control and registry-mutation routes and the two pages
ControlPaths ==
    {"/api/manage/miners", "/api/miner/power", "/api/miner/start", "/api/miner/shutdown",
     "/api/miners/power", "/api/miners/freq", "/api/miners/sleep", "/api/miners/start",
     "/api/miners/shutdown", "/api/machines", "/api/machines/:ip", "/manage", "/settings"}

\* the client address does not parse, or is neither loopback nor in 10.0.0.0/24
OutsideClient(client) ==
    \/ ~client.ip.ok
    \/ /\ client.ip.v4
       /\ client.ip.o[1] # 127
       /\ SubSeq(client.ip.o, 1, 3) # <<10, 0, 0>>
    \/ /\ ~client.ip.v4
       /\ ~client.ip.lo

\* C29: every control and registry-mutation route, and the /manage and
\* /settings pages, answer 404 without running their handler (so no device,
\* relay or registry action) when the client IP does not parse or is neither
\* loopback nor inside 10.0.0.0/24; the dashboard and telemetry routes run
\* their handler for every client.
C29_ControlRoutesClosed ==
    npc = "done" =>
        /\ (nreq.route.path \in ControlPaths /\ OutsideClient(nreq.client)) =>
              /\ nanswer = StatusNotFound
              /\ ~nran
        /\ nreq.route.path \notin ControlPaths => nran

\* C29 witness: a bulk shutdown asked from 10.0.1.1 was answered 404 and the
\* handler did not run
C29_Witness ==
    /\ npc = "done"
    /\ nreq.route.path = "/api/miners/shutdown"
    /\ nreq.client.text = "10.0.1.1"
    /\ nanswer = StatusNotFound
    /\ ~nran

\* C29 witness: an add-machine request with an address that does not parse was
\* answered 404
C29_UnparsableWitness ==
    /\ npc = "done"
    /\ nreq.route.path = "/api/machines"
    /\ nreq.client.text = "10.0.0.256"
    /\ nanswer = StatusNotFound
    /\ ~nran

\* C29 witness: a telemetry route served a client from outside
C29_ReadWitness ==
    /\ npc = "done"
    /\ nreq.route.path = "/api/status"
    /\ nreq.client.text = "8.8.8.8"
    /\ nran
    /\ nanswer = 200

----------------------------------------------------------------------------
(* C27: the slots of results in getManageMinersHandler *)

\* C27: getManageMinersHandler writes each machine's result into a slot inside
\* results, one slot per machine of the list it iterates over, every slot
\* written by the task of its machine, and results[i] describes the i-th
\* machine; also when addMachineHandler or deleteMachineHandler replaces the
\* machines list while the handler runs.
C27_SlotPerMachine ==
    /\ gpc # "panic"
    /\ gpc \in {"launch", "done"} => Len(results) = Len(grange)
    /\ \A i \in DOMAIN gtask :
          gtask[i] = "finished" =>
             /\ i <= Len(results)
             /\ results[i].Name = grange[i].Name
             /\ results[i].IP = grange[i].IP
             /\ results[i].ShellyIP = grange[i].ShellyIP
    /\ gpc = "done" => \A i \in 1..Len(results) : gtask[i] = "finished"

----------------------------------------------------------------------------
(* C23: what the tasks of a bulk operation share *)

\* task i is about to execute shellyIPForMiner, which ranges over machines
ReadsMachines(i) == tpc[i] = "start" /\ req.kind \in RelayKinds

\* a handler is about to assign machines
WritesMachines == xpc = "store"

\* C23: while the tasks of a bulk operation run, failed is the only shared
\* mutable state they touch and it is mutated only with the lock held; no
\* task reads state (the machines list, in shellyIPForMiner) that a handler
\* running at the same time (add or delete machine) writes without
\* synchronization.
C23_OnlyFailedShared ==
    /\ \A i \in Tasks : tpc[i] \in {"read", "write", "unlock"} => mu = i
    /\ ~(WritesMachines /\ \E i \in Tasks : ReadsMachines(i))
====
